---- MODULE Spec2Model ----
(***************************************************************************)
(* Amazeing: the stroke state machine (PathManager over Grid and the       *)
(* GameState singleton) as a state machine.  One action per PathManager    *)
(* method and one for GameController.loadLevel.                            *)
(***************************************************************************)
EXTENDS Integers, Sequences, FiniteSets, TLC

\* ------------------------------------------------------------------------
\* Bounds of the model
\* ------------------------------------------------------------------------
\* how far outside the grid the (row, col) arguments of a call may lie
Margin == 1
\* longest in-progress path (in cells) that a plain extension may produce
MaxPathCells == 4
\* successful undos explored per session (since the last load or reset)
MaxUndos == 1
\* points of the long level: more than maxHistory + 1, so that the history overflows
LongPoints == 54
\* on the long level undo is tried once the history is within this of its capacity
HistorySlack == 2

\* GameState._state.maxHistory
maxHistory == 50

\* JavaScript null for a point / path number (numbers start at 1)
Null == 0
\* JavaScript null for gameState.currentPath
NoPath == [number |-> Null, cells |-> <<>>]

Pos(r, c) == [row |-> r, col |-> c]

\* `${row},${col}`: the key is determined by the two integers and determines them
posKey(row, col) == <<row, col>>

\* faulty variant: compares the rows only
posEquals_RowOnly(pos1, pos2) == pos1.row = pos2.row

posEquals(pos1, pos2) == pos1.row = pos2.row /\ pos1.col = pos2.col

Abs(x) == IF x < 0 THEN -x ELSE x

\* faulty variant: diagonal neighbours count as adjacent
areAdjacent_Diagonal(pos1, pos2) ==
    LET rowDiff == Abs(pos1.row - pos2.row)
        colDiff == Abs(pos1.col - pos2.col)
    IN  rowDiff <= 1 /\ colDiff <= 1 /\ rowDiff + colDiff > 0

areAdjacent(pos1, pos2) ==
    LET rowDiff == Abs(pos1.row - pos2.row)
        colDiff == Abs(pos1.col - pos2.col)
    IN  (rowDiff = 1 /\ colDiff = 0) \/ (rowDiff = 0 /\ colDiff = 1)

\* ------------------------------------------------------------------------
\* Levels (the Level schema: size, points, obstacles)
\* ------------------------------------------------------------------------
Point(n, r, c) == [number |-> n, row |-> r, col |-> c]

\* one entry of level.solution: the reference cells from point `from` to point `to`
Segment(from, to, cells) == [from |-> from, to |-> to, path |-> cells]

NoLevel == [id |-> "none", size |-> 0, points |-> <<>>, obstacles |-> {},
            solution |-> <<>>]

\* The levels that are loaded: two 3x3 levels, one with three points and no
\* obstacle, one with two points and an obstacle in the middle.  Each carries
\* its reference solution, one segment per pair of consecutive points, each
\* segment running from its first point's cell to its second point's cell.
Levels ==
    { [id |-> "open", size |-> 3,
       points |-> << Point(1, 0, 0), Point(2, 1, 1), Point(3, 0, 2) >>,
       obstacles |-> {},
       solution |-> << Segment(1, 2, << Pos(0, 0), Pos(0, 1), Pos(1, 1) >>),
                       Segment(2, 3, << Pos(1, 1), Pos(1, 0), Pos(2, 0), Pos(2, 1),
                                        Pos(2, 2), Pos(1, 2), Pos(0, 2) >>) >>],
      [id |-> "blocked", size |-> 3,
       points |-> << Point(1, 0, 0), Point(2, 0, 2) >>,
       obstacles |-> { Pos(1, 1) },
       solution |-> << Segment(1, 2, << Pos(0, 0), Pos(0, 1), Pos(0, 2) >>) >>] }

\* A level with many points: an 8x8 grid whose points 1, 2, 3, ... follow
\* each other along the rows, left to right on even rows and right to left
\* on odd ones, so that point k+1 is next to point k.
LongSize == 8

LongCell(i) ==
    LET r == i \div LongSize
    IN  Pos(r, IF r % 2 = 0 THEN i % LongSize ELSE LongSize - 1 - (i % LongSize))

LongLevel ==
    [id |-> "long", size |-> LongSize,
     points |-> [n \in 1 .. LongPoints |->
                   Point(n, LongCell(n - 1).row, LongCell(n - 1).col)],
     obstacles |-> {},
     solution |-> [n \in 1 .. (LongPoints - 1) |->
                     Segment(n, n + 1, << LongCell(n - 1), LongCell(n) >>)]]

\* the (row, col) arguments tried: every cell of the largest level and a margin
MaxLevelSize == CHOOSE n \in { l.size : l \in Levels } : \A l \in Levels : l.size <= n
Coords == (0 - Margin) .. (MaxLevelSize - 1 + Margin)

\* ------------------------------------------------------------------------
\* State
\* ------------------------------------------------------------------------
VARIABLES
    grid,             \* GameController.grid: [size, cells, points]
    levelData,        \* gameState._state.levelData
    points,           \* gameState._state.points
    totalPoints,      \* gameState._state.totalPoints
    occupiedCells,    \* gameState._state.occupiedCells (set of keys)
    paths,            \* gameState._state.paths (committed paths)
    currentPath,      \* gameState._state.currentPath
    connectedPoints,  \* gameState._state.connectedPoints
    currentNumber,    \* gameState._state.currentNumber
    gameState,        \* gameState._state.gameState
    isComplete,       \* gameState._state.isComplete
    history,          \* gameState._state.history
    lastEvents,       \* events passed to _notify by the last call, in order
    result,           \* the last call and what it returned
    undoCount,        \* successful undos since the last load or reset (model bound)
    enabled,          \* InputHandler.enabled
    isActive,         \* InputHandler.isActive
    lastCell,         \* InputHandler.lastCell
    preCommit,        \* history variable: the state the last call committed from
    options,          \* LevelGenerator.generate: its arguments {size, numPoints, obstaclePercent}
    pc,               \* LevelGenerator.generate: where the call is
    attempt,          \* generate: the loop variable (RetryLimit for the call after the loop)
    obstacles,        \* _generateObstacles: the array of obstacles
    obstacleAttempts, \* _generateObstacles: the local `attempts`
    obstacleGrid,     \* _tryGenerateLevel: the local `grid` (-1 on an obstacle, 0 elsewhere)
    startPoints,      \* _findHamiltonianPath: the shuffled start points not tried yet
    visited,          \* _hamiltonianDFS: the set of visited keys
    path,             \* _hamiltonianDFS: the path so far
    iterations,       \* _hamiltonianDFS: state.iterations
    stack,            \* for each active _hamiltonianDFS call, the neighbours its loop has left
    atEntry,          \* history variable: for each active call, visited and path when it was entered
    generated,        \* what generate returned
    attemptSteps,     \* history variable: _hamiltonianDFS calls of the current attempt
    packsLoaded,      \* LevelManager: loadPacks has run
    levelCount,       \* LevelManager: the number of levels in this.packs, all packs together
    daily             \* the last getDailyPuzzle call: its date string, allLevels.length and index

sessionVars == << occupiedCells, paths, currentPath, connectedPoints,
                  currentNumber, gameState, isComplete, history >>
levelVars == << levelData, points, totalPoints >>
inputVars == << enabled, isActive, lastCell >>
gameVars == << grid, levelData, points, totalPoints, occupiedCells, paths,
               currentPath, connectedPoints, currentNumber, gameState,
               isComplete, history, lastEvents, result, undoCount,
               enabled, isActive, lastCell, preCommit >>
searchVars == << obstacleGrid, startPoints, visited, path, iterations, stack, atEntry >>
generatorVars == << options, pc, attempt, obstacles, obstacleAttempts,
                    searchVars, generated, attemptSteps >>
managerVars == << packsLoaded, levelCount, daily >>
vars == << gameVars, generatorVars, managerVars >>

\* ------------------------------------------------------------------------
\* Grid
\* ------------------------------------------------------------------------
NoGrid == [size |-> 0, cells |-> <<>>, points |-> <<>>]

FreshCell == [occupied |-> FALSE, pathNumber |-> Null,
              isPoint |-> FALSE, pointNumber |-> Null]

_createGrid(size) ==
    [k \in { posKey(r, c) : r \in 0 .. size - 1, c \in 0 .. size - 1 } |-> FreshCell]

isValidPosition(g, row, col) ==
    row >= 0 /\ row < g.size /\ col >= 0 /\ col < g.size

\* only used where the position is valid; an invalid one is the code's null
getCell(g, row, col) == g.cells[posKey(row, col)]

\* faulty variant: the cell is not marked
occupyCell_NoOp(g, row, col, pathNumber) == g

occupyCell(g, row, col, pathNumber) ==
    IF isValidPosition(g, row, col)
    THEN [g EXCEPT !.cells[posKey(row, col)].occupied = TRUE,
                   !.cells[posKey(row, col)].pathNumber = pathNumber]
    ELSE g

\* faulty variant: the cell stays marked
releaseCell_NoOp(g, row, col) == g

releaseCell(g, row, col) ==
    IF isValidPosition(g, row, col) /\ ~getCell(g, row, col).isPoint
    THEN [g EXCEPT !.cells[posKey(row, col)].occupied = FALSE,
                   !.cells[posKey(row, col)].pathNumber = Null]
    ELSE g

setPoint(g, row, col, pointNumber) ==
    IF isValidPosition(g, row, col)
    THEN [g EXCEPT !.cells[posKey(row, col)].isPoint = TRUE,
                   !.cells[posKey(row, col)].pointNumber = pointNumber,
                   !.points = (posKey(row, col) :> pointNumber) @@ g.points]
    ELSE g

getPointAt(g, row, col) ==
    IF posKey(row, col) \in DOMAIN g.points THEN g.points[posKey(row, col)] ELSE Null

GridReset(g) ==
    [g EXCEPT !.cells = [k \in DOMAIN g.cells |->
                            [g.cells[k] EXCEPT !.occupied = FALSE, !.pathNumber = Null]]]

RECURSIVE SetPoints(_, _, _)
SetPoints(g, pts, i) ==
    IF i > Len(pts) THEN g
    ELSE IF ~isValidPosition(g, pts[i].row, pts[i].col) THEN SetPoints(g, pts, i + 1)
    ELSE SetPoints(setPoint(g, pts[i].row, pts[i].col, pts[i].number), pts, i + 1)

initializePoints(g, pts) ==
    SetPoints([g EXCEPT !.cells = _createGrid(g.size), !.points = <<>>], pts, 1)

\* faulty variant: the replay starts at the second cell of a path
OccupyCells_SkipsFirst(g, cells, number, i) ==
    [g EXCEPT !.cells = [k \in DOMAIN g.cells |->
        IF \E j \in (i + 1) .. Len(cells) : k = posKey(cells[j].row, cells[j].col)
        THEN [g.cells[k] EXCEPT !.occupied = TRUE, !.pathNumber = number]
        ELSE g.cells[k]]]

RECURSIVE OccupyCells(_, _, _, _)
OccupyCells(g, cells, number, i) ==
    IF i > Len(cells) THEN g
    ELSE IF ~isValidPosition(g, cells[i].row, cells[i].col)
         THEN OccupyCells(g, cells, number, i + 1)
    ELSE OccupyCells(occupyCell(g, cells[i].row, cells[i].col, number), cells, number, i + 1)

\* faulty variant: only the first of the cells is released
ReleaseCells_FirstOnly(g, cells, i) ==
    IF i > Len(cells) THEN g ELSE releaseCell(g, cells[i].row, cells[i].col)

RECURSIVE ReleaseCells(_, _, _)
ReleaseCells(g, cells, i) ==
    IF i > Len(cells) THEN g
    ELSE IF ~isValidPosition(g, cells[i].row, cells[i].col)
         THEN ReleaseCells(g, cells, i + 1)
    ELSE ReleaseCells(releaseCell(g, cells[i].row, cells[i].col), cells, i + 1)

RECURSIVE OccupyPaths(_, _, _)
OccupyPaths(g, ps, i) ==
    IF i > Len(ps) \/ g.size = 0 THEN g   \* (a grid of size 0 has no cell to mark)
    ELSE OccupyPaths(OccupyCells(g, ps[i].cells, ps[i].number, 1), ps, i + 1)

\* faulty variant: the paths are not replayed
rebuildFromPaths_ResetOnly(g, ps) == GridReset(g)

rebuildFromPaths(g, ps) == OccupyPaths(GridReset(g), ps, 1)

\* ------------------------------------------------------------------------
\* GameState helpers
\* ------------------------------------------------------------------------
KeysOf(cells) == { posKey(cells[i].row, cells[i].col) : i \in 1 .. Len(cells) }

getCurrentPathEnd == currentPath.cells[Len(currentPath.cells)]

\* Array.findIndex: the first 0-based index of the cell, -1 if absent
findInCurrentPath(row, col) ==
    LET hits == { i \in 1 .. Len(currentPath.cells) :
                    currentPath.cells[i].row = row /\ currentPath.cells[i].col = col }
    IN  IF hits = {} THEN -1
        ELSE (CHOOSE i \in hits : \A j \in hits : i <= j) - 1

\* startPath: the new in-progress path
NewPath(row, col, pointNumber) == [number |-> pointNumber, cells |-> << Pos(row, col) >>]

\* cells.slice(existingIndex + 1) / cells.splice(fromIndex + 1): the removed tail
RemovedCells(cells, fromIndex) == SubSeq(cells, fromIndex + 2, Len(cells))

\* what cells.splice(fromIndex + 1) leaves in the path
KeptCells(cells, fromIndex) == SubSeq(cells, 1, fromIndex + 1)

\* faulty variant: only the upper endpoint becomes connected
ConnectedAfter_UpperOnly(connected, number) == connected \cup { number + 1 }

\* completePath: both endpoint numbers become connected
ConnectedAfter(connected, number) == connected \cup { number, number + 1 }

\* faulty variant: the number does not advance
NextNumber_Stay(number) == number

\* completePath: the next number to connect from
NextNumber(number) == number + 1

\* faulty variant: one point short counts as all
AllConnected_OneShort(connected) == Cardinality(connected) >= totalPoints - 1

\* _checkCompletion: all points connected
AllConnected(connected) == Cardinality(connected) = totalPoints

\* tryExtendPath: the cell is the target point
IsTarget(cell, targetNumber) == cell.isPoint /\ cell.pointNumber = targetNumber

\* faulty variant: the wrong-point test is missing
IsBlocked_OccupiedOnly(cell, targetNumber) == cell.occupied

\* faulty variant: the occupancy test is missing
IsBlocked_WrongPointOnly(cell, targetNumber) ==
    cell.isPoint /\ cell.pointNumber # targetNumber

\* tryExtendPath: the cell is occupied, or a point that is not the target
IsBlocked(cell, targetNumber) ==
    cell.occupied \/ (cell.isPoint /\ cell.pointNumber # targetNumber)

\* faulty variant: the snapshot is taken after the number advanced
Snapshot_AfterAdvance ==
    [paths |-> paths, occupiedCells |-> occupiedCells,
     currentNumber |-> currentNumber + 1, connectedPoints |-> connectedPoints]

\* the snapshot saveSnapshot() takes of the state
Snapshot == [paths |-> paths, occupiedCells |-> occupiedCells,
             currentNumber |-> currentNumber, connectedPoints |-> connectedPoints]

\* faulty variant: over capacity the newest snapshot is dropped, not the oldest
saveSnapshot_DropsNewest(h, snapshot) ==
    LET pushed == Append(h, snapshot)
    IN  IF Len(pushed) > maxHistory THEN SubSeq(pushed, 1, maxHistory) ELSE pushed

\* history after saveSnapshot() pushed snapshot: shift() once it exceeds maxHistory
saveSnapshot(h, snapshot) ==
    LET pushed == Append(h, snapshot)
    IN  IF Len(pushed) > maxHistory THEN Tail(pushed) ELSE pushed

canUndo == Len(history) > 0

\* How far a session is followed: on the levels of Levels a stroke up to
\* MaxPathCells cells and MaxUndos undos; on a generated level, which is
\* played along its solution, a stroke over the whole grid and an undo for
\* every point.
StrokeLimit ==
    IF levelData.id = "random" THEN levelData.size * levelData.size ELSE MaxPathCells

UndoLimit == IF levelData.id = "random" THEN totalPoints ELSE MaxUndos

\* what a call returned: {success, reason, completed, backtracked}, tagged with the call
Ret(op, success, reason, completed, backtracked) ==
    [op |-> op, success |-> success, reason |-> reason,
     completed |-> completed, backtracked |-> backtracked]

\* faulty variant: a rejected call drops the stroke in progress
Reject_DropsPath(op, reason) ==
    /\ result' = Ret(op, FALSE, reason, FALSE, FALSE)
    /\ lastEvents' = <<>>
    /\ currentPath' = NoPath
    /\ UNCHANGED << grid, levelVars, occupiedCells, paths, connectedPoints,
                    currentNumber, gameState, isComplete, history, undoCount >>

\* return { success: false, reason }: nothing was touched, nothing was notified
Reject(op, reason) ==
    /\ result' = Ret(op, FALSE, reason, FALSE, FALSE)
    /\ lastEvents' = <<>>
    /\ UNCHANGED << grid, levelVars, sessionVars, undoCount >>

\* ------------------------------------------------------------------------
\* InputHandler
\* ------------------------------------------------------------------------
\* JavaScript null for InputHandler.lastCell (no cell of the DOM has row -1)
NoCell == Pos(Null - 1, Null - 1)

enable == enabled' = TRUE /\ UNCHANGED << isActive, lastCell >>

\* faulty variant: the handler stays enabled
disable_StaysEnabled == UNCHANGED enabled /\ isActive' = FALSE /\ lastCell' = NoCell

disable == enabled' = FALSE /\ isActive' = FALSE /\ lastCell' = NoCell

\* the call that is being made passed the event to _notify
Notified(event) == \E i \in 1 .. Len(lastEvents') : lastEvents'[i] = event

\* The InputHandler after a call: 'levelComplete' runs the controller's
\* subscriber _onLevelComplete, which disables the handler; otherwise the
\* handler is as the caller left it (drag active or not, last cell seen).
InputAfter(active, cell) ==
    IF Notified("levelComplete") THEN disable
    ELSE UNCHANGED enabled /\ isActive' = active /\ lastCell' = cell

\* a PathManager method called from outside a drag
Subscribers == InputAfter(isActive, lastCell)

\* ------------------------------------------------------------------------
\* History variable of the properties: what a committing call started from
\* ------------------------------------------------------------------------
NoCommit == [committed |-> FALSE]

\* the keys of the cells the grid g marks occupied
OccupiedKeys(g) == { k \in DOMAIN g.cells : g.cells[k].occupied }

Track ==
    preCommit' = IF result'.op = "tryExtend" /\ result'.completed
                 THEN [committed |-> TRUE,
                       occupiedCells |-> occupiedCells,
                       gridOccupied |-> OccupiedKeys(grid),
                       paths |-> paths,
                       connectedPoints |-> connectedPoints,
                       currentNumber |-> currentNumber]
                 ELSE NoCommit

\* ------------------------------------------------------------------------
\* LevelGenerator before generate is called (a class of static methods)
\* ------------------------------------------------------------------------
NoOptions == [size |-> 0, numPoints |-> 0, obstaclePercent |-> 0]

\* JavaScript null for the level generate returns
NullLevel == [id |-> "null"]

GeneratorIdle ==
    /\ options = NoOptions
    /\ pc = "idle"
    /\ attempt = 0
    /\ obstacles = <<>>
    /\ obstacleAttempts = 0
    /\ obstacleGrid = << >>
    /\ startPoints = <<>>
    /\ visited = {}
    /\ path = <<>>
    /\ iterations = 0
    /\ stack = <<>>
    /\ atEntry = <<>>
    /\ generated = NullLevel
    /\ attemptSteps = 0

\* ------------------------------------------------------------------------
\* LevelManager after its constructor: this.packs = [], no daily puzzle asked for
\* ------------------------------------------------------------------------
NoDaily == [today |-> <<>>, length |-> 0, index |-> 0]

ManagerIdle ==
    /\ packsLoaded = FALSE
    /\ levelCount = 0
    /\ daily = NoDaily

\* a call on the game: the generator and the level manager are not touched
Played == UNCHANGED << generatorVars, managerVars >>

\* ------------------------------------------------------------------------
\* Initial state: GameState and GameController constructors, no level yet
\* ------------------------------------------------------------------------
Init ==
    /\ grid = NoGrid
    /\ levelData = NoLevel
    /\ points = <<>>
    /\ totalPoints = 0
    /\ occupiedCells = {}
    /\ paths = <<>>
    /\ currentPath = NoPath
    /\ connectedPoints = {}
    /\ currentNumber = 1
    /\ gameState = "idle"
    /\ isComplete = FALSE
    /\ history = <<>>
    /\ lastEvents = <<>>
    /\ result = Ret("new", TRUE, "", FALSE, FALSE)
    /\ undoCount = 0
    /\ enabled = TRUE
    /\ isActive = FALSE
    /\ lastCell = NoCell
    /\ preCommit = NoCommit
    /\ GeneratorIdle
    /\ ManagerIdle

\* a PathManager exists once a level has been loaded
Loaded == levelData # NoLevel

\* ------------------------------------------------------------------------
\* GameController.loadLevel -> Grid, PathManager, gameState.loadLevel/reset
\* ------------------------------------------------------------------------
LoadLevel(l) ==
    /\ grid' = initializePoints([size |-> l.size, cells |-> _createGrid(l.size),
                                 points |-> <<>>], l.points)
    /\ levelData' = l
    /\ points' = l.points
    /\ totalPoints' = Len(l.points)
    /\ paths' = <<>>
    /\ occupiedCells' = {}
    /\ currentPath' = NoPath
    /\ connectedPoints' = {}
    /\ currentNumber' = 1
    /\ gameState' = "idle"
    /\ isComplete' = FALSE
    /\ history' = <<>>
    /\ lastEvents' = << "reset", "levelLoaded", "theme" >>
    /\ result' = Ret("loadLevel", TRUE, "", FALSE, FALSE)
    /\ undoCount' = 0
    /\ enable

\* ------------------------------------------------------------------------
\* PathManager.tryStartPath
\* ------------------------------------------------------------------------
TryStartPath(row, col) ==
    /\ Loaded
    /\ LET point == getPointAt(grid, row, col) IN
       IF point = Null THEN Reject("tryStart", "not_a_point")
       ELSE IF point # currentNumber THEN Reject("tryStart", "wrong_point")
       ELSE IF currentPath # NoPath THEN Reject("tryStart", "already_drawing")
       ELSE
           \* gameState.startPath(row, col, point); grid.occupyCell(row, col, point)
           /\ currentPath' = NewPath(row, col, point)
           /\ occupiedCells' = occupiedCells \cup { posKey(row, col) }
           /\ gameState' = "drawing"
           /\ lastEvents' = << "pathStarted" >>
           /\ grid' = occupyCell(grid, row, col, point)
           /\ result' = Ret("tryStart", TRUE, "", FALSE, FALSE)
           /\ UNCHANGED << levelVars, paths, connectedPoints, currentNumber,
                           isComplete, history, undoCount >>

\* ------------------------------------------------------------------------
\* PathManager.tryExtendPath
\* ------------------------------------------------------------------------
\* faulty variant: the truncation is notified twice
Backtrack_NotifiesTwice(existingIndex) ==
    LET cellsToRemove == RemovedCells(currentPath.cells, existingIndex)
    IN  /\ grid' = ReleaseCells(grid, cellsToRemove, 1)
        /\ currentPath' = [currentPath EXCEPT !.cells = KeptCells(currentPath.cells, existingIndex)]
        /\ occupiedCells' = occupiedCells \ KeysOf(RemovedCells(currentPath.cells, existingIndex))
        /\ lastEvents' = << "pathTruncated", "pathTruncated" >>
        /\ result' = Ret("tryExtend", TRUE, "", FALSE, TRUE)
        /\ UNCHANGED << levelVars, paths, connectedPoints, currentNumber,
                        gameState, isComplete, history, undoCount >>

\* the backtracking branch: release the cells after the index, truncatePath(index)
Backtrack(existingIndex) ==
    LET cellsToRemove == RemovedCells(currentPath.cells, existingIndex)
    IN  /\ grid' = ReleaseCells(grid, cellsToRemove, 1)
        /\ currentPath' = [currentPath EXCEPT !.cells = KeptCells(currentPath.cells, existingIndex)]
        /\ occupiedCells' = occupiedCells \ KeysOf(RemovedCells(currentPath.cells, existingIndex))
        /\ lastEvents' = << "pathTruncated" >>
        /\ result' = Ret("tryExtend", TRUE, "", FALSE, TRUE)
        /\ UNCHANGED << levelVars, paths, connectedPoints, currentNumber,
                        gameState, isComplete, history, undoCount >>

\* the target branch: gameState.completePath(row, col), then grid.occupyCell
Complete(row, col, targetNumber) ==
    LET withEnd == [currentPath EXCEPT !.cells = Append(currentPath.cells, Pos(row, col))]
        occupied2 == occupiedCells \cup { posKey(row, col) }
        snapshot == [Snapshot EXCEPT !.occupiedCells = occupied2]
        completedPath == withEnd
        connected2 == ConnectedAfter(connectedPoints, completedPath.number)
    IN  /\ occupiedCells' = occupied2
        /\ history' = saveSnapshot(history, snapshot)
        /\ paths' = Append(paths, completedPath)
        /\ connectedPoints' = connected2
        /\ currentNumber' = NextNumber(completedPath.number)
        /\ currentPath' = NoPath
        /\ gameState' = IF AllConnected(connected2) THEN "completed" ELSE "idle"
        /\ isComplete' = IF AllConnected(connected2) THEN TRUE ELSE isComplete
        /\ lastEvents' = IF AllConnected(connected2)
                         THEN << "pathCompleted", "levelComplete" >>
                         ELSE << "pathCompleted" >>
        /\ grid' = occupyCell(grid, row, col, targetNumber - 1)
        /\ result' = Ret("tryExtend", TRUE, "", TRUE, FALSE)
        /\ UNCHANGED << levelVars, undoCount >>

\* the plain extension: gameState.extendPath(row, col); grid.occupyCell
Extend(row, col) ==
    /\ Len(currentPath.cells) < StrokeLimit
    /\ currentPath' = [currentPath EXCEPT !.cells = Append(currentPath.cells, Pos(row, col))]
    /\ occupiedCells' = occupiedCells \cup { posKey(row, col) }
    /\ lastEvents' = << "pathExtended" >>
    /\ grid' = occupyCell(grid, row, col, currentPath.number)
    /\ result' = Ret("tryExtend", TRUE, "", FALSE, FALSE)
    /\ UNCHANGED << levelVars, paths, connectedPoints, currentNumber,
                    gameState, isComplete, history, undoCount >>

TryExtendPath(row, col) ==
    /\ Loaded
    /\ IF currentPath = NoPath THEN Reject("tryExtend", "no_active_path")
       ELSE IF Len(currentPath.cells) = 0 THEN Reject("tryExtend", "no_path_end")
       ELSE IF posEquals(getCurrentPathEnd, Pos(row, col)) THEN Reject("tryExtend", "same_cell")
       ELSE IF ~areAdjacent(getCurrentPathEnd, Pos(row, col)) THEN Reject("tryExtend", "not_adjacent")
       ELSE IF findInCurrentPath(row, col) # -1 THEN Backtrack(findInCurrentPath(row, col))
       ELSE IF ~isValidPosition(grid, row, col) THEN Reject("tryExtend", "invalid_cell")
       ELSE IF IsTarget(getCell(grid, row, col), currentNumber + 1)
            THEN Complete(row, col, currentNumber + 1)
       ELSE IF IsBlocked(getCell(grid, row, col), currentNumber + 1)
            THEN Reject("tryExtend", "cell_occupied")
       ELSE Extend(row, col)

\* ------------------------------------------------------------------------
\* PathManager.cancelPath
\* ------------------------------------------------------------------------
CancelPath ==
    /\ Loaded
    /\ result' = Ret("cancel", TRUE, "", FALSE, FALSE)
    /\ IF currentPath = NoPath THEN
           /\ lastEvents' = <<>>
           /\ UNCHANGED << grid, levelVars, sessionVars, undoCount >>
       ELSE
           /\ grid' = ReleaseCells(grid, Tail(currentPath.cells), 1)
           /\ occupiedCells' = occupiedCells \ KeysOf(Tail(currentPath.cells))
           /\ currentPath' = NoPath
           /\ gameState' = "idle"
           /\ lastEvents' = << "pathCancelled" >>
           /\ UNCHANGED << levelVars, paths, connectedPoints, currentNumber,
                           isComplete, history, undoCount >>

\* ------------------------------------------------------------------------
\* PathManager.undo
\* ------------------------------------------------------------------------
\* faulty variant: an undo with nothing to undo still drops the stroke in progress
UndoRefused_DropsStroke ==
    /\ result' = Ret("undo", FALSE, "", FALSE, FALSE)
    /\ lastEvents' = <<>>
    /\ currentPath' = NoPath
    /\ gameState' = "idle"
    /\ UNCHANGED << grid, levelVars, occupiedCells, paths, connectedPoints,
                    currentNumber, isComplete, history, undoCount >>

\* if (!gameState.canUndo()) return false
UndoRefused ==
    /\ result' = Ret("undo", FALSE, "", FALSE, FALSE)
    /\ lastEvents' = <<>>
    /\ UNCHANGED << grid, levelVars, sessionVars, undoCount >>

Undo ==
    /\ Loaded
    /\ IF ~canUndo THEN UndoRefused
       ELSE
           LET snapshot == history[Len(history)] IN
           /\ undoCount < UndoLimit
           /\ undoCount' = undoCount + 1
           /\ history' = SubSeq(history, 1, Len(history) - 1)
           /\ paths' = snapshot.paths
           /\ occupiedCells' = snapshot.occupiedCells
           /\ currentNumber' = snapshot.currentNumber
           /\ connectedPoints' = snapshot.connectedPoints
           /\ currentPath' = NoPath
           /\ gameState' = "idle"
           /\ lastEvents' = << "undo" >>
           /\ grid' = rebuildFromPaths(initializePoints(GridReset(grid), points),
                                       snapshot.paths)
           /\ result' = Ret("undo", TRUE, "", FALSE, FALSE)
           /\ UNCHANGED << levelVars, isComplete >>

\* ------------------------------------------------------------------------
\* PathManager.reset
\* ------------------------------------------------------------------------
\* faulty variant: reset, like undo, leaves the completion flag and the history
Reset_KeepsCompletion ==
    /\ Loaded
    /\ paths' = <<>>
    /\ occupiedCells' = {}
    /\ currentPath' = NoPath
    /\ connectedPoints' = {}
    /\ currentNumber' = 1
    /\ gameState' = "idle"
    /\ lastEvents' = << "reset" >>
    /\ grid' = initializePoints(GridReset(grid), points)
    /\ result' = Ret("reset", TRUE, "", FALSE, FALSE)
    /\ undoCount' = 0
    /\ UNCHANGED << levelVars, isComplete, history >>

Reset ==
    /\ Loaded
    /\ paths' = <<>>
    /\ occupiedCells' = {}
    /\ currentPath' = NoPath
    /\ connectedPoints' = {}
    /\ currentNumber' = 1
    /\ gameState' = "idle"
    /\ isComplete' = FALSE
    /\ history' = <<>>
    /\ lastEvents' = << "reset" >>
    /\ grid' = initializePoints(GridReset(grid), points)
    /\ result' = Ret("reset", TRUE, "", FALSE, FALSE)
    /\ undoCount' = 0
    /\ UNCHANGED levelVars

\* ------------------------------------------------------------------------
\* GameController.reset -> PathManager.reset, inputHandler.enable
\* ------------------------------------------------------------------------
ControllerReset == Reset /\ enable

\* ------------------------------------------------------------------------
\* PathManager.getHint
\* ------------------------------------------------------------------------
Min(a, b) == IF a < b THEN a ELSE b

\* Array.prototype.slice(start, end): the elements at the 0-based indices
\* start .. end - 1 that exist
slice(s, start, end) == SubSeq(s, start + 1, Min(end, Len(s)))

\* what getHint returns: null, or an array of cells (possibly an empty one)
NullHint == [isNull |-> TRUE, cells |-> <<>>]
HintCells(cells) == [isNull |-> FALSE, cells |-> cells]

\* faulty variant: the first segment, whatever the current number is
FindSegment_First(solution, currentNum) ==
    IF Len(solution) = 0 THEN Null ELSE 1

\* levelData.solution.find(s => s.from === currentNum): the index of the first
\* such segment, Null when find returns undefined
FindSegment(solution, currentNum) ==
    LET hits == { i \in DOMAIN solution : solution[i].from = currentNum }
    IN  IF hits = {} THEN Null
        ELSE CHOOSE i \in hits : \A j \in hits : i <= j

RECURSIVE MatchLoop(_, _, _, _)
\* the for loop: i is the 0-based loop index, matchIndex the value so far
MatchLoop(currentCells, solutionCells, i, matchIndex) ==
    IF i < Len(currentCells) /\ i < Len(solutionCells)
    THEN IF posEquals(currentCells[i + 1], solutionCells[i + 1])
         THEN MatchLoop(currentCells, solutionCells, i + 1, i)
         ELSE matchIndex
    ELSE matchIndex

\* faulty variant: the progress along the segment is not measured
MatchIndex_Zero(currentCells, solutionCells) == 0

\* let matchIndex = 0; for (...) { ... }
MatchIndex(currentCells, solutionCells) ==
    MatchLoop(currentCells, solutionCells, 0, 0)

getHint(level, currentNum, curPath) ==
    IF level = NoLevel THEN NullHint
    ELSE LET found == FindSegment(level.solution, currentNum) IN
         IF found = Null THEN NullHint
         ELSE LET solutionCells == level.solution[found].path IN
              IF curPath # NoPath
              THEN LET matchIndex == MatchIndex(curPath.cells, solutionCells)
                       hintCells == slice(solutionCells, matchIndex + 1, matchIndex + 4)
                   IN  IF Len(hintCells) > 0 THEN HintCells(hintCells) ELSE NullHint
              ELSE HintCells(slice(solutionCells, 0, 3))

\* a call of getHint: it reads gameState and returns, nothing is written or notified
GetHint ==
    /\ Loaded
    /\ result' = [op |-> "getHint",
                  hint |-> getHint(levelData, currentNumber, currentPath)]
    /\ lastEvents' = <<>>
    /\ UNCHANGED << grid, levelVars, sessionVars, undoCount >>

\* The stroke state machine driven call by call: the PathManager methods
\* with any arguments, level loads and resets.
Next ==
    \/ \E l \in Levels : LoadLevel(l) /\ Track /\ Played
    \/ \E row \in Coords, col \in Coords : TryStartPath(row, col) /\ Subscribers /\ Track /\ Played
    \/ \E row \in Coords, col \in Coords : TryExtendPath(row, col) /\ Subscribers /\ Track /\ Played
    \/ CancelPath /\ Subscribers /\ Track /\ Played
    \/ Undo /\ Subscribers /\ Track /\ Played
    \/ ControllerReset /\ Track /\ Played

Spec == Init /\ [][Next]_vars

\* The same machine with the hint button: getHint may be called between any
\* two calls.
HintNext ==
    \/ Next
    \/ GetHint /\ Subscribers /\ Track /\ Played

SpecHint == Init /\ [][HintNext]_vars

\* ------------------------------------------------------------------------
\* GameController's drag callbacks and InputHandler's event handlers
\* ------------------------------------------------------------------------
\* a handler that returns at once: nothing is called, nothing is notified
Ignored(handler) ==
    /\ result' = Ret(handler, FALSE, "ignored", FALSE, FALSE)
    /\ lastEvents' = <<>>
    /\ UNCHANGED << grid, levelVars, sessionVars, undoCount >>

_onDragStart(row, col) ==
    IF gameState = "completed" THEN Ignored("onDragStart")
    ELSE TryStartPath(row, col)

_onDragMove(row, col) ==
    IF gameState # "drawing" THEN Ignored("onDragMove")
    ELSE TryExtendPath(row, col)

\* faulty variant: the end of a drag leaves the stroke in progress
_onDragEnd_KeepsStroke == Ignored("onDragEnd")

_onDragEnd ==
    IF gameState = "drawing" THEN CancelPath
    ELSE Ignored("onDragEnd")

\* the rows and columns of the cells an event can hit: the cells of the level
DomCoords == 0 .. (levelData.size - 1)

_handleStart(row, col) ==
    /\ Loaded
    /\ IF ~enabled THEN Ignored("handleStart") /\ UNCHANGED inputVars
       ELSE _onDragStart(row, col) /\ InputAfter(TRUE, Pos(row, col))

_handleMove(row, col) ==
    /\ Loaded
    /\ IF ~isActive \/ ~enabled THEN Ignored("handleMove") /\ UNCHANGED inputVars
       ELSE IF lastCell # NoCell /\ lastCell = Pos(row, col)
            THEN Ignored("handleMove") /\ UNCHANGED inputVars
       ELSE _onDragMove(row, col) /\ InputAfter(isActive, Pos(row, col))

_handleEnd ==
    /\ Loaded
    /\ IF ~isActive THEN Ignored("handleEnd") /\ UNCHANGED inputVars
       ELSE _onDragEnd /\ InputAfter(FALSE, NoCell)

\* The game as the player drives it: mouse / touch events on the cells of
\* the grid, the undo and reset buttons, level loads.
ControllerNext ==
    \/ \E l \in Levels : LoadLevel(l) /\ Track /\ Played
    \/ \E row \in DomCoords, col \in DomCoords : _handleStart(row, col) /\ Track /\ Played
    \/ \E row \in DomCoords, col \in DomCoords : _handleMove(row, col) /\ Track /\ Played
    \/ _handleEnd /\ Track /\ Played
    \/ Undo /\ Subscribers /\ Track /\ Played
    \/ ControllerReset /\ Track /\ Played

SpecController == Init /\ [][ControllerNext]_vars

\* ------------------------------------------------------------------------
\* The long level played point by point: each stroke starts on the current
\* point and goes straight to the next one; undo near a full history.
\* ------------------------------------------------------------------------
HistoryNext ==
    \/ LoadLevel(LongLevel) /\ Track /\ Played
    \/ \E i \in 1 .. Len(points) :
          /\ points[i].number = currentNumber
          /\ TryStartPath(points[i].row, points[i].col) /\ Subscribers /\ Track /\ Played
    \/ \E i \in 1 .. Len(points) :
          /\ points[i].number = currentNumber + 1
          /\ TryExtendPath(points[i].row, points[i].col) /\ Subscribers /\ Track /\ Played
    \/ /\ Len(history) + HistorySlack >= maxHistory
       /\ Undo /\ Subscribers /\ Track /\ Played

SpecHistory == Init /\ [][HistoryNext]_vars

\* ------------------------------------------------------------------------
\* LevelGenerator
\* ------------------------------------------------------------------------
\* The calls of generate that are followed: 3x3 grids, with two to four
\* points and with room for no, one or two obstacles.
GenOptions ==
    { [size |-> 3, numPoints |-> 2, obstaclePercent |-> 0],
      [size |-> 3, numPoints |-> 3, obstaclePercent |-> 12],
      [size |-> 3, numPoints |-> 4, obstaclePercent |-> 25] }

\* the attempts of the loop of generate, for (let attempt = 0; attempt < 50;
\* attempt++), scaled like maxIterations (the code has 50)
RetryLimit == 2

\* while (... && attempts < maxObstacles * 10)
ObstacleTries == 10

\* state.maxIterations, scaled to the 3x3 grids (the code has 50000): a search
\* that goes astray runs out of steps
maxIterations == 13

\* Math.floor(totalCells * (obstaclePercent / 100)); on the options followed
\* the floating-point product is not within rounding of an integer, so this
\* is the integer quotient
MaxObstaclesOf(o) == (o.size * o.size * o.obstaclePercent) \div 100

\* the maxObstacles of the current _tryGenerateLevel call: the loop passes
\* generate's maxObstacles, the call after the loop passes 0
maxObstacles == IF attempt < RetryLimit THEN MaxObstaclesOf(options) ELSE 0

\* Math.floor(Math.random() * (size - 2)) + 1, Math.random() being in [0, 1)
RandomInterior(size) == IF size > 2 THEN 1 .. (size - 2) ELSE { 1 }

\* avoidCells
avoidCells(size) ==
    { posKey(0, 0), posKey(0, size - 1), posKey(size - 1, 0), posKey(size - 1, size - 1) }

\* faulty variant: the obstacles placed are forgotten
obstacleSet_Forgets(obs) == {}

\* obstacleSet of _generateObstacles and of _createGrid: the keys of the obstacles
obstacleSet(obs) == { posKey(obs[i].row, obs[i].col) : i \in 1 .. Len(obs) }

\* LevelGenerator._createGrid: -1 on an obstacle, 0 elsewhere
generatorGrid(size, obs) ==
    [k \in (0 .. (size - 1)) \X (0 .. (size - 1)) |->
        IF k \in obstacleSet(obs) THEN -1 ELSE 0]

directions ==
    << [dr |-> -1, dc |-> 0], [dr |-> 1, dc |-> 0],
       [dr |-> 0, dc |-> -1], [dr |-> 0, dc |-> 1] >>

\* faulty variant: an obstacle still counts as a neighbour
_getNeighbors_ThroughObstacles(g, size, row, col, vis) ==
    LET moved == [i \in 1 .. Len(directions) |->
                    Pos(row + directions[i].dr, col + directions[i].dc)]
    IN  SelectSeq(moved, LAMBDA n :
            /\ n.row >= 0 /\ n.row < size /\ n.col >= 0 /\ n.col < size
            /\ posKey(n.row, n.col) \notin vis)

\* LevelGenerator._getNeighbors: the free unvisited cells next to (row, col),
\* in the order up, down, left, right
_getNeighbors(g, size, row, col, vis) ==
    LET moved == [i \in 1 .. Len(directions) |->
                    Pos(row + directions[i].dr, col + directions[i].dc)]
    IN  SelectSeq(moved, LAMBDA n :
            /\ n.row >= 0 /\ n.row < size /\ n.col >= 0 /\ n.col < size
            /\ g[posKey(n.row, n.col)] # -1
            /\ posKey(n.row, n.col) \notin vis)

\* degA, degB of the sort: for each neighbour the number of its own onward moves
degrees(neighbors, g, size, vis) ==
    [i \in 1 .. Len(neighbors) |->
        Len(_getNeighbors(g, size, neighbors[i].row, neighbors[i].col, vis))]

\* neighbors.sort((a, b) => degA - degB): ascending by degree, neighbours of
\* equal degree keeping their order (the sort is stable)
sortByDegree(neighbors, deg) ==
    LET n == Len(neighbors)
        rank(i) == 1 + Cardinality({ j \in 1 .. n :
                          deg[j] < deg[i] \/ (deg[j] = deg[i] /\ j < i) })
    IN  [k \in 1 .. n |-> neighbors[CHOOSE i \in 1 .. n : rank(i) = k]]

\* _shuffle: Math.random() can send the array to any of its permutations
_shuffle(array) ==
    { [k \in 1 .. Len(array) |-> array[p[k]]] : p \in Permutations(1 .. Len(array)) }

\* if (neighbors.length > 1 && Math.random() < 0.3) this._shuffle(neighbors):
\* the sorted order, or, when there are several neighbours, a shuffled one
NeighborOrders(sorted) ==
    { sorted } \cup (IF Len(sorted) > 1 THEN _shuffle(sorted) ELSE {})

\* the start points of _findHamiltonianPath before the shuffle
corners(size) ==
    << Pos(0, 0), Pos(0, size - 1), Pos(size - 1, 0), Pos(size - 1, size - 1) >>

\* faulty variant: every point but the first sits on the last cell
PointIndex_Bunched(i, numPoints, pathLength) ==
    IF i = 0 THEN 0 ELSE pathLength - 1

\* _placePoints: the 0-based path index of the point with 0-based rank i
PointIndex(i, numPoints, pathLength) ==
    LET spacing == pathLength \div numPoints
    IN  IF i = 0 THEN 0
        ELSE IF i = numPoints - 1 THEN pathLength - 1
        ELSE i * spacing

_placePoints(p, numPoints) ==
    [n \in 1 .. numPoints |->
        LET index == PointIndex(n - 1, numPoints, Len(p))
        IN  Point(n, p[index + 1].row, p[index + 1].col)]

\* path.findIndex(p => p.row === point.row && p.col === point.col): 0-based,
\* -1 when no cell matches
findIndex(p, point) ==
    LET hits == { i \in 1 .. Len(p) : p[i].row = point.row /\ p[i].col = point.col }
    IN  IF hits = {} THEN -1
        ELSE (CHOOSE i \in hits : \A j \in hits : i <= j) - 1

\* faulty variant: a segment stops one cell short of its second point
_createSolution_Short(p, pts) ==
    [i \in 1 .. (Len(pts) - 1) |->
        Segment(i, i + 1, slice(p, findIndex(p, pts[i]), findIndex(p, pts[i + 1])))]

_createSolution(p, pts) ==
    [i \in 1 .. (Len(pts) - 1) |->
        Segment(i, i + 1, slice(p, findIndex(p, pts[i]), findIndex(p, pts[i + 1]) + 1))]

\* generate is called
Generate(o) ==
    /\ pc = "idle"
    /\ options' = o
    /\ pc' = "obstacles"
    /\ attempt' = 0
    /\ obstacles' = <<>>
    /\ obstacleAttempts' = 0
    /\ UNCHANGED << searchVars, generated, attemptSteps >>

\* _generateObstacles: one round of the while loop
PlaceObstacle ==
    /\ pc = "obstacles"
    /\ Len(obstacles) < maxObstacles
    /\ obstacleAttempts < maxObstacles * ObstacleTries
    /\ obstacleAttempts' = obstacleAttempts + 1
    /\ \E row \in RandomInterior(options.size), col \in RandomInterior(options.size) :
          obstacles' = IF /\ posKey(row, col) \notin obstacleSet(obstacles)
                          /\ posKey(row, col) \notin avoidCells(options.size)
                       THEN Append(obstacles, Pos(row, col))
                       ELSE obstacles
    /\ UNCHANGED << options, pc, attempt, searchVars, generated, attemptSteps >>

\* the while loop is left: _createGrid, then _findHamiltonianPath shuffles
\* its start points
BeginSearch ==
    /\ pc = "obstacles"
    /\ ~(Len(obstacles) < maxObstacles /\ obstacleAttempts < maxObstacles * ObstacleTries)
    /\ pc' = "search"
    /\ obstacleGrid' = generatorGrid(options.size, obstacles)
    /\ startPoints' \in _shuffle(corners(options.size))
    /\ visited' = {}
    /\ path' = <<>>
    /\ iterations' = 0
    /\ stack' = <<>>
    /\ atEntry' = <<>>
    /\ attemptSteps' = 0
    /\ UNCHANGED << options, attempt, obstacles, obstacleAttempts, generated >>

\* the number of cells a path must reach
target == options.size * options.size - Len(obstacles)

\* the path is complete: every call returns true, _tryGenerateLevel places the
\* points, cuts the solution and returns the level, and so does generate
ReturnLevel(p) ==
    LET pts == _placePoints(p, options.numPoints)
    IN  /\ generated' = [id |-> "random", size |-> options.size, points |-> pts,
                         obstacles |-> obstacles, solution |-> _createSolution(p, pts)]
        /\ pc' = "returned"

\* one call of _hamiltonianDFS on (row, col), up to its for loop: vis, p, its
\* and stk are the visited set, the path, state.iterations and the calls
\* under way when it is entered
_hamiltonianDFS(row, col, vis, p, its, stk) ==
    /\ iterations' = its + 1
    /\ attemptSteps' = attemptSteps + 1
    /\ IF its + 1 > maxIterations
       THEN \* return false
            /\ visited' = vis /\ path' = p /\ stack' = stk
            /\ UNCHANGED << pc, generated, atEntry >>
       ELSE /\ visited' = vis \cup { posKey(row, col) }
            /\ path' = Append(p, Pos(row, col))
            /\ atEntry' = Append(atEntry, [visited |-> vis, path |-> p])
            /\ IF Len(p) + 1 = target
               THEN stack' = stk /\ ReturnLevel(Append(p, Pos(row, col)))
               ELSE /\ \E neighbors \in { _getNeighbors(obstacleGrid, options.size, row, col,
                                                         vis \cup { posKey(row, col) }) } :
                       \E deg \in { degrees(neighbors, obstacleGrid, options.size,
                                             vis \cup { posKey(row, col) }) } :
                       \E order \in NeighborOrders(sortByDegree(neighbors, deg)) :
                          stack' = Append(stk, order)
                    /\ UNCHANGED << pc, generated >>

\* _findHamiltonianPath: the next start point, with a fresh visited set, path
\* and iteration count
TryStartPoint ==
    /\ pc = "search"
    /\ stack = <<>>
    /\ startPoints # <<>>
    /\ startPoints' = Tail(startPoints)
    /\ LET start == Head(startPoints) IN
       IF obstacleGrid[posKey(start.row, start.col)] = -1
       THEN UNCHANGED << visited, path, iterations, stack, atEntry, pc, generated, attemptSteps >>
       ELSE _hamiltonianDFS(start.row, start.col, {}, <<>>, 0, <<>>)
    /\ UNCHANGED << options, attempt, obstacles, obstacleAttempts, obstacleGrid >>

\* the for loop of the innermost call takes its next neighbour
Descend ==
    /\ pc = "search"
    /\ stack # <<>>
    /\ stack[Len(stack)] # <<>>
    /\ LET next == Head(stack[Len(stack)])
           rest == [stack EXCEPT ![Len(stack)] = Tail(@)]
       IN  _hamiltonianDFS(next.row, next.col, visited, path, iterations, rest)
    /\ UNCHANGED << options, attempt, obstacles, obstacleAttempts, obstacleGrid,
                    startPoints >>

\* faulty variant: the cell stays marked as visited
DFSBacktrack_KeepsVisited ==
    /\ pc = "search"
    /\ stack # <<>>
    /\ stack[Len(stack)] = <<>>
    /\ visited' = visited
    /\ path' = SubSeq(path, 1, Len(path) - 1)
    /\ stack' = SubSeq(stack, 1, Len(stack) - 1)
    /\ atEntry' = SubSeq(atEntry, 1, Len(atEntry) - 1)
    /\ UNCHANGED << options, pc, attempt, obstacles, obstacleAttempts, obstacleGrid,
                    startPoints, iterations, generated, attemptSteps >>

\* the for loop of the innermost call is through: backtrack and return false
DFSBacktrack ==
    /\ pc = "search"
    /\ stack # <<>>
    /\ stack[Len(stack)] = <<>>
    /\ LET last == path[Len(path)] IN visited' = visited \ { posKey(last.row, last.col) }
    /\ path' = SubSeq(path, 1, Len(path) - 1)
    /\ stack' = SubSeq(stack, 1, Len(stack) - 1)
    /\ atEntry' = SubSeq(atEntry, 1, Len(atEntry) - 1)
    /\ UNCHANGED << options, pc, attempt, obstacles, obstacleAttempts, obstacleGrid,
                    startPoints, iterations, generated, attemptSteps >>

\* faulty variant: generate never gives up
SearchFailed_NeverGivesUp ==
    /\ pc = "search"
    /\ stack = <<>>
    /\ startPoints = <<>>
    /\ attempt' = attempt + 1
    /\ pc' = "obstacles"
    /\ obstacles' = <<>>
    /\ obstacleAttempts' = 0
    /\ UNCHANGED << options, searchVars, generated, attemptSteps >>

\* no start point is left: _findHamiltonianPath and _tryGenerateLevel return
\* null; the loop of generate goes on, then the call without obstacles, and
\* after that generate returns null
SearchFailed ==
    /\ pc = "search"
    /\ stack = <<>>
    /\ startPoints = <<>>
    /\ IF attempt < RetryLimit
       THEN /\ attempt' = attempt + 1
            /\ pc' = "obstacles"
            /\ obstacles' = <<>>
            /\ obstacleAttempts' = 0
            /\ UNCHANGED generated
       ELSE /\ pc' = "returned"
            /\ generated' = NullLevel
            /\ UNCHANGED << attempt, obstacles, obstacleAttempts >>
    /\ UNCHANGED << options, searchVars, attemptSteps >>

\* LevelGenerator.generate, one step of it at a time
GenerateNext ==
    \/ \E o \in GenOptions : Generate(o) /\ UNCHANGED << gameVars, managerVars >>
    \/ PlaceObstacle /\ UNCHANGED << gameVars, managerVars >>
    \/ BeginSearch /\ UNCHANGED << gameVars, managerVars >>
    \/ TryStartPoint /\ UNCHANGED << gameVars, managerVars >>
    \/ Descend /\ UNCHANGED << gameVars, managerVars >>
    \/ DFSBacktrack /\ UNCHANGED << gameVars, managerVars >>
    \/ SearchFailed /\ UNCHANGED << gameVars, managerVars >>

SpecGenerate == Init /\ [][GenerateNext]_vars

\* generate is one synchronous call: once called it runs on, step after
\* step, until it returns
SpecGenerateLive == SpecGenerate /\ WF_vars(GenerateNext)

\* ------------------------------------------------------------------------
\* LevelManager.getDailyPuzzle
\* ------------------------------------------------------------------------
\* the most levels the packs hold, all packs taken together
MaxLevels == 3

\* the days the clock is followed over: three months of a leap year and of
\* a common year (the hash of a 2024 date is negative on 32 bits, that of a
\* 2026 date is not)
Years == { 2024, 2026 }
Months == { 2, 7, 12 }

isLeapYear(year) == ((year % 4) = 0 /\ (year % 100) # 0) \/ (year % 400) = 0

daysInMonth(year, month) ==
    IF month = 2 THEN (IF isLeapYear(year) THEN 29 ELSE 28)
    ELSE IF month \in { 4, 6, 9, 11 } THEN 30
    ELSE 31

\* new Date(): the day the clock shows
Dates ==
    { dt \in [year : Years, month : Months, day : 1 .. 31] :
        dt.day <= daysInMonth(dt.year, dt.month) }

RECURSIVE padStart(_, _)
\* n in `width` decimal digits, as the char codes of '0'..'9' (48..57)
padStart(n, width) ==
    IF width = 0 THEN <<>>
    ELSE Append(padStart(n \div 10, width - 1), 48 + (n % 10))

\* getTodayString: new Date().toISOString().split('T')[0], YYYY-MM-DD, as
\* the sequence of its char codes ('-' is 45)
getTodayString(dt) ==
    padStart(dt.year, 4) \o << 45 >> \o padStart(dt.month, 2) \o << 45 >>
        \o padStart(dt.day, 2)

\* a 32-bit integer is kept as its two 16-bit halves, hi * Word + lo, in
\* two's complement: hi >= Word / 2 is a negative number
Word == 65536

\* hash & hash, and the result of <<: the low 32 bits
ToInt32(hi, lo) == [hi |-> (hi + (lo \div Word)) % Word, lo |-> lo % Word]

\* faulty variant: the shift is by four bits
ShiftLeft5_ByFour(hash) == ToInt32(hash.hi * 16, hash.lo * 16)

\* hash << 5
ShiftLeft5(hash) == ToInt32(hash.hi * 32, hash.lo * 32)

\* hash = ((hash << 5) - hash) + char; hash = hash & hash
hashStep(hash, char) ==
    LET shifted == ShiftLeft5(hash)
    IN  ToInt32(shifted.hi - hash.hi, shifted.lo - hash.lo + char)

RECURSIVE hashLoop(_, _, _)
\* the for loop of dateHash from index i (1-based) on
hashLoop(dateString, i, hash) ==
    IF i > Len(dateString) THEN hash
    ELSE hashLoop(dateString, i + 1, hashStep(hash, dateString[i]))

\* Math.abs of a 32-bit integer: a number in 0 .. 2^31, in halves
abs(hash) ==
    IF hash.hi < Word \div 2 THEN hash
    ELSE IF hash.lo = 0 THEN [hi |-> Word - hash.hi, lo |-> 0]
    ELSE [hi |-> Word - 1 - hash.hi, lo |-> Word - hash.lo]

dateHash(dateString) == abs(hashLoop(dateString, 1, [hi |-> 0, lo |-> 0]))

\* stands for the NaN that hash % 0 is
NaN == -1

\* hash % allLevels.length, hash being 0 or more
remainder(hash, length) ==
    IF length = 0 THEN NaN
    ELSE ((hash.hi % length) * (Word % length) + (hash.lo % length)) % length

\* LevelManager.loadPacks, called once by GameController.init: the packs
\* fetched, or else the sample packs, hold levelCount levels in all
LoadPacks ==
    /\ ~packsLoaded
    /\ packsLoaded' = TRUE
    /\ levelCount' \in 0 .. MaxLevels
    /\ UNCHANGED daily

\* LevelManager.getDailyPuzzle
GetDailyPuzzle ==
    /\ \E dt \in Dates :
          LET today == getTodayString(dt)
              hash == dateHash(today)
          IN  daily' = [today |-> today, length |-> levelCount,
                        index |-> remainder(hash, levelCount)]
    /\ UNCHANGED << packsLoaded, levelCount >>

DailyNext ==
    \/ LoadPacks /\ UNCHANGED << gameVars, generatorVars >>
    \/ GetDailyPuzzle /\ UNCHANGED << gameVars, generatorVars >>

SpecDaily == Init /\ [][DailyNext]_vars

\* ------------------------------------------------------------------------
\* A generated level played along its solution
\* ------------------------------------------------------------------------
\* the level generate returned, its array of obstacles kept as a set like
\* the obstacles of Levels
AsLevel(level) ==
    [level EXCEPT !.obstacles = { level.obstacles[i] : i \in 1 .. Len(level.obstacles) }]

\* GameController.loadLevel on the level generate returned; generate's
\* locals are gone, the level is all that is left of the call
LoadGenerated ==
    /\ pc = "returned"
    /\ generated # NullLevel
    /\ ~Loaded
    /\ LoadLevel(AsLevel(generated))
    /\ options' = NoOptions
    /\ attempt' = 0
    /\ obstacles' = <<>>
    /\ obstacleAttempts' = 0
    /\ obstacleGrid' = << >>
    /\ startPoints' = <<>>
    /\ visited' = {}
    /\ path' = <<>>
    /\ iterations' = 0
    /\ stack' = <<>>
    /\ atEntry' = <<>>
    /\ attemptSteps' = 0
    /\ UNCHANGED << pc, generated, managerVars >>

\* the player follows the solution: with no stroke in progress tryStartPath
\* on the first cell of the segment that leaves the current point, else
\* tryExtendPath on the segment's cell after those already drawn
Replay ==
    /\ Loaded
    /\ gameState # "completed"
    /\ IF currentPath = NoPath
       THEN /\ FindSegment(levelData.solution, currentNumber) # Null
            /\ LET first == levelData.solution[FindSegment(levelData.solution,
                                                           currentNumber)].path[1]
               IN  TryStartPath(first.row, first.col)
       ELSE /\ FindSegment(levelData.solution, currentPath.number) # Null
            /\ LET cells == levelData.solution[FindSegment(levelData.solution,
                                                           currentPath.number)].path
               IN  /\ Len(currentPath.cells) < Len(cells)
                   /\ TryExtendPath(cells[Len(currentPath.cells) + 1].row,
                                    cells[Len(currentPath.cells) + 1].col)

SolveNext ==
    \/ GenerateNext
    \/ LoadGenerated /\ Track
    \/ Replay /\ Subscribers /\ Track /\ Played

SpecSolve == Init /\ [][SolveNext]_vars

\* The same with the undo and reset buttons and strokes that are dropped
SolveUndoNext ==
    \/ SolveNext
    \/ Undo /\ Subscribers /\ Track /\ Played
    \/ CancelPath /\ Subscribers /\ Track /\ Played
    \/ ControllerReset /\ Track /\ Played

SpecSolveUndo == Init /\ [][SolveUndoNext]_vars


\* ------------------------------------------------------------------------
\* Vocabulary of the properties: stated on the level's data and on the
\* stored paths, not through the grid's own lookups
\* ------------------------------------------------------------------------
Active == currentPath # NoPath

ActiveEnd == currentPath.cells[Len(currentPath.cells)]

\* the level has point n at (row, col)
IsPointOf(n, row, col) ==
    \E i \in 1 .. Len(points) :
        points[i].number = n /\ points[i].row = row /\ points[i].col = col

IsAnyPoint(row, col) == \E n \in 1 .. totalPoints : IsPointOf(n, row, col)

InBounds(row, col) ==
    row \in 0 .. levelData.size - 1 /\ col \in 0 .. levelData.size - 1

\* Manhattan distance 1
Adjacent4(a, b) == Abs(a.row - b.row) + Abs(a.col - b.col) = 1

\* the grid g marks (row, col) occupied
MarkedOccupied(g, row, col) ==
    posKey(row, col) \in DOMAIN g.cells /\ g.cells[posKey(row, col)].occupied

CellsOf(p) == { p.cells[i] : i \in 1 .. Len(p.cells) }

\* 1-based positions of (row, col) in the active path
ActiveIndexOf(row, col) == { i \in 1 .. Len(currentPath.cells) : currentPath.cells[i] = Pos(row, col) }

\* the four positions at Manhattan distance 1 of a cell, in or out of the grid
Neighbours4(c) ==
    { Pos(c.row - 1, c.col), Pos(c.row + 1, c.col),
      Pos(c.row, c.col - 1), Pos(c.row, c.col + 1) }

FailureReasons ==
    { "not_a_point", "wrong_point", "already_drawing", "no_active_path",
      "same_cell", "not_adjacent", "cell_occupied", "invalid_cell" }

\* ------------------------------------------------------------------------
\* C1: tryStart(row, col) succeeds exactly when (row, col) is the point
\* numbered currentNumber and no path is active; on success the active path
\* is [(row, col)] numbered currentNumber and the cell is occupied (grid and
\* session); otherwise it fails with not_a_point, wrong_point or
\* already_drawing.
\* ------------------------------------------------------------------------
C1_TryStartContract ==
    [][ result'.op = "tryStart" =>
          \* a failure carries one of the three reasons
          /\ ~result'.success =>
                result'.reason \in { "not_a_point", "wrong_point", "already_drawing" }
          \* a call that succeeds was on the current point with no path active
          /\ result'.success =>
                \A row \in Coords, col \in Coords :
                    TryStartPath(row, col) =>
                      /\ IsPointOf(currentNumber, row, col) /\ ~Active
                      /\ currentPath' = [number |-> currentNumber,
                                         cells |-> << Pos(row, col) >>]
                      /\ MarkedOccupied(grid', row, col)
                      /\ posKey(row, col) \in occupiedCells'
          \* a call on the current point with no path active succeeds
          /\ ~Active =>
                \A i \in 1 .. Len(points) :
                    ( /\ points[i].number = currentNumber
                      /\ TryStartPath(points[i].row, points[i].col) )
                    => result'.success
      ]_vars

C1_Witness ==
    /\ result.op = "tryStart" /\ result.success
    /\ Active /\ Len(currentPath.cells) = 1
    /\ MarkedOccupied(grid, currentPath.cells[1].row, currentPath.cells[1].col)

\* ------------------------------------------------------------------------
\* C2: with path k active, tryExtend on the cell of point k+1 next to the
\* path's end succeeds with completed = true; the path with that cell
\* appended is the last committed path, k and k+1 are connected,
\* currentNumber is k+1 (k was currentNumber) and no path is active.
\* ------------------------------------------------------------------------
C2_CommitOnTarget ==
    [][ (result'.op = "tryExtend" /\ Active) =>
          \A i \in 1 .. Len(points) :
            ( /\ points[i].number = currentPath.number + 1
              /\ Adjacent4(ActiveEnd, Pos(points[i].row, points[i].col))
              /\ TryExtendPath(points[i].row, points[i].col) )
            => /\ currentPath.number = currentNumber
               /\ result'.success /\ result'.completed
               /\ Len(paths') = Len(paths) + 1
               /\ paths'[Len(paths')] =
                     [number |-> currentPath.number,
                      cells |-> Append(currentPath.cells,
                                       Pos(points[i].row, points[i].col))]
               /\ { currentPath.number, currentPath.number + 1 } \subseteq connectedPoints'
               /\ currentNumber' = currentPath.number + 1
               /\ currentPath' = NoPath
      ]_vars

C2_Witness ==
    /\ result.op = "tryExtend" /\ result.completed
    /\ Len(paths) >= 1 /\ ~Active
    /\ currentNumber = paths[Len(paths)].number + 1

\* ------------------------------------------------------------------------
\* C3: backtracking.  tryExtend on a cell next to the active path's end that
\* is in the active path at index i succeeds flagged backtracked; the path
\* becomes its prefix up to that cell; the cells after it are occupied
\* neither in the grid nor in the session's set; committed paths,
\* currentNumber, connected points and history do not change.
\* ------------------------------------------------------------------------
C3_Backtrack ==
    [][ (result'.op = "tryExtend" /\ Active) =>
          \A i \in 1 .. Len(currentPath.cells) :
            ( /\ Adjacent4(ActiveEnd, currentPath.cells[i])
              /\ TryExtendPath(currentPath.cells[i].row, currentPath.cells[i].col) )
            => /\ result'.success /\ result'.backtracked
               /\ currentPath' = [number |-> currentPath.number,
                                  cells |-> SubSeq(currentPath.cells, 1, i)]
               /\ \A j \in i + 1 .. Len(currentPath.cells) :
                     /\ ~MarkedOccupied(grid', currentPath.cells[j].row,
                                        currentPath.cells[j].col)
                     /\ posKey(currentPath.cells[j].row, currentPath.cells[j].col)
                            \notin occupiedCells'
               /\ UNCHANGED << paths, currentNumber, connectedPoints, history >>
      ]_vars

C3_Witness ==
    /\ result.op = "tryExtend" /\ result.backtracked
    /\ Active /\ Len(currentPath.cells) = 1
    /\ Len(paths) >= 1

\* ------------------------------------------------------------------------
\* C4: with a path active, tryExtend on an in-bounds cell next to the path's
\* end and not in the active path fails with cell_occupied whenever the grid
\* marks the cell occupied or the cell is a point other than number
\* currentNumber + 1; so the cells the active path has entered are never
\* cells of a committed path nor cells of a point.
\* ------------------------------------------------------------------------
\* the cells the active path has entered after its starting point
EnteredCells == { currentPath.cells[i] : i \in 2 .. Len(currentPath.cells) }

ActiveKeepsOut ==
    \A c \in EnteredCells :
        /\ ~IsAnyPoint(c.row, c.col)
        /\ \A k \in 1 .. Len(paths) : c \notin CellsOf(paths[k])

C4_OccupiedRejected ==
    [][ /\ ActiveKeepsOut'
        /\ (result'.op = "tryExtend" /\ Active) =>
             \A c \in Neighbours4(ActiveEnd) :
               ( /\ InBounds(c.row, c.col)
                 /\ c \notin CellsOf(currentPath)
                 /\ \/ MarkedOccupied(grid, c.row, c.col)
                    \/ \E n \in 1 .. totalPoints :
                          n # currentNumber + 1 /\ IsPointOf(n, c.row, c.col)
                 /\ TryExtendPath(c.row, c.col) )
               => (~result'.success /\ result'.reason = "cell_occupied")
      ]_vars

C4_Witness ==
    /\ result.op = "tryExtend" /\ result.reason = "cell_occupied"
    /\ Active /\ Len(paths) >= 1
    /\ \E c \in Neighbours4(ActiveEnd) :
          \E k \in 1 .. Len(paths) :
              c \in CellsOf(paths[k]) /\ ~IsAnyPoint(c.row, c.col)

\* ------------------------------------------------------------------------
\* C5: a failed tryStart / tryExtend returns one of the eight reason codes
\* and changes nothing: active path, committed paths, grid, occupied set,
\* currentNumber, connected points and history are as before, and no event
\* is emitted.
\* ------------------------------------------------------------------------
C5_FailureChangesNothing ==
    [][ (result'.op \in { "tryStart", "tryExtend" } /\ ~result'.success) =>
          /\ result'.reason \in FailureReasons
          /\ lastEvents' = <<>>
          /\ UNCHANGED << grid, currentPath, paths, occupiedCells, currentNumber,
                          connectedPoints, history >>
      ]_vars

C5_Witness ==
    /\ result.op = "tryExtend" /\ ~result.success
    /\ result.reason = "cell_occupied"
    /\ Active /\ Len(currentPath.cells) >= 2 /\ Len(history) >= 1

\* ------------------------------------------------------------------------
\* C6: with a path active, tryExtend on the path's end returns same_cell, on
\* any other position not 4-adjacent to the end returns not_adjacent
\* whatever the position holds, on an out-of-bounds position 4-adjacent to
\* the end returns invalid_cell; with no path active it returns
\* no_active_path.
\* ------------------------------------------------------------------------
C6_ExtendRejections ==
    [][ result'.op = "tryExtend" =>
          IF ~Active THEN ~result'.success /\ result'.reason = "no_active_path"
          ELSE
            /\ TryExtendPath(ActiveEnd.row, ActiveEnd.col) =>
                  (~result'.success /\ result'.reason = "same_cell")
            /\ \/ (~result'.success /\ result'.reason = "not_adjacent")
               \/ \A row \in Coords, col \in Coords :
                     ( /\ Pos(row, col) # ActiveEnd
                       /\ ~Adjacent4(ActiveEnd, Pos(row, col)) )
                     => ~TryExtendPath(row, col)
            /\ \A c \in Neighbours4(ActiveEnd) :
                  ( /\ ~InBounds(c.row, c.col)
                    /\ TryExtendPath(c.row, c.col) )
                  => (~result'.success /\ result'.reason = "invalid_cell")
      ]_vars

C6_Witness ==
    /\ result.op = "tryExtend" /\ result.reason = "invalid_cell"
    /\ Active /\ Len(currentPath.cells) >= 2

\* ------------------------------------------------------------------------
\* C7: the active path and every committed path is a sequence of distinct
\* cells whose consecutive cells are 4-adjacent; a path numbered k starts on
\* the cell of point k, and a committed path numbered k ends on the cell of
\* point k+1.
\* ------------------------------------------------------------------------
SimplePath(p) ==
    /\ \A i, j \in 1 .. Len(p.cells) : i # j => p.cells[i] # p.cells[j]
    /\ \A i \in 1 .. Len(p.cells) - 1 : Adjacent4(p.cells[i], p.cells[i + 1])

StartsOnOwnPoint(p) ==
    Len(p.cells) >= 1 /\ IsPointOf(p.number, p.cells[1].row, p.cells[1].col)

EndsOnNextPoint(p) ==
    IsPointOf(p.number + 1, p.cells[Len(p.cells)].row, p.cells[Len(p.cells)].col)

C7_PathsAreSimple ==
    /\ Active => (SimplePath(currentPath) /\ StartsOnOwnPoint(currentPath))
    /\ \A k \in 1 .. Len(paths) :
          /\ SimplePath(paths[k])
          /\ StartsOnOwnPoint(paths[k])
          /\ EndsOnNextPoint(paths[k])

C7_Witness ==
    /\ Len(paths) >= 1 /\ Len(paths[1].cells) >= 4
    /\ Active /\ Len(currentPath.cells) >= 3

\* ------------------------------------------------------------------------
\* C8: the non-endpoint cells of the committed paths are pairwise disjoint
\* across paths, and a committed path contains the cell of no point other
\* than its own two endpoints.
\* ------------------------------------------------------------------------
InteriorOf(p) == { p.cells[i] : i \in 2 .. Len(p.cells) - 1 }

C8_CommittedDisjoint ==
    /\ \A k1, k2 \in 1 .. Len(paths) :
          k1 # k2 => InteriorOf(paths[k1]) \cap InteriorOf(paths[k2]) = {}
    /\ \A k \in 1 .. Len(paths) :
          /\ \A c \in InteriorOf(paths[k]) : ~IsAnyPoint(c.row, c.col)
          /\ \A c \in CellsOf(paths[k]) :
                \A n \in 1 .. totalPoints :
                    IsPointOf(n, c.row, c.col) =>
                        n \in { paths[k].number, paths[k].number + 1 }

C8_Witness ==
    /\ Len(paths) = 2
    /\ InteriorOf(paths[1]) # {} /\ InteriorOf(paths[2]) # {}

\* ------------------------------------------------------------------------
\* C9: for a level with obstacles, no obstacle cell is ever occupied and no
\* active or committed path contains an obstacle cell.
\* ------------------------------------------------------------------------
C9_ObstaclesStayFree ==
    \A o \in levelData.obstacles :
        /\ ~MarkedOccupied(grid, o.row, o.col)
        /\ posKey(o.row, o.col) \notin occupiedCells
        /\ o \notin CellsOf(currentPath)
        /\ \A k \in 1 .. Len(paths) : o \notin CellsOf(paths[k])

\* ------------------------------------------------------------------------
\* C10: every cell of the active path and of every committed path is marked
\* occupied in the grid, also after backtracking, cancel, undo and reset.
\* ------------------------------------------------------------------------
C10_PathCellsOccupied ==
    /\ \A c \in CellsOf(currentPath) : MarkedOccupied(grid, c.row, c.col)
    /\ \A k \in 1 .. Len(paths) :
          \A c \in CellsOf(paths[k]) : MarkedOccupied(grid, c.row, c.col)

C10_Witness ==
    /\ result.op = "undo" /\ result.success
    /\ Len(paths) >= 1 /\ Len(paths[1].cells) >= 3

\* ------------------------------------------------------------------------
\* C11: undo() called right after a commit puts the session's occupied set,
\* the grid's occupancy, the committed paths, the connected points and
\* currentNumber back to the values they had before the commit.
\* ------------------------------------------------------------------------
C11_UndoRoundTrip ==
    [][ (result'.op = "undo" /\ result'.success /\ preCommit.committed) =>
          /\ paths' = preCommit.paths
          /\ connectedPoints' = preCommit.connectedPoints
          /\ currentNumber' = preCommit.currentNumber
          /\ occupiedCells' = preCommit.occupiedCells
          /\ OccupiedKeys(grid') = preCommit.gridOccupied
      ]_vars

\* ------------------------------------------------------------------------
\* C12: a successful undo() with path k the last committed one leaves
\* currentNumber = k, k+1 not connected and no committed path numbered k;
\* for k = 1 no point is connected.
\* ------------------------------------------------------------------------
C12_UndoRevertsCommit ==
    [][ (result'.op = "undo" /\ result'.success /\ Len(paths) >= 1) =>
          LET k == paths[Len(paths)].number IN
          /\ currentNumber' = k
          /\ (k + 1) \notin connectedPoints'
          /\ \A j \in 1 .. Len(paths') : paths'[j].number # k
          /\ (k = 1 => connectedPoints' = {})
      ]_vars

C12_Witness ==
    /\ result.op = "undo" /\ result.success
    /\ paths = <<>> /\ connectedPoints = {} /\ currentNumber = 1
    /\ occupiedCells # {}

\* ------------------------------------------------------------------------
\* C13: after a successful undo() no path is active, the cells the grid
\* marks occupied are exactly the cells of the restored committed paths, and
\* the cells of the level's points, and no others, carry their point number.
\* ------------------------------------------------------------------------
CommittedKeys ==
    UNION { { posKey(c.row, c.col) : c \in CellsOf(paths[k]) } : k \in 1 .. Len(paths) }

PointsKept(g) ==
    \A k \in DOMAIN g.cells :
        IF IsAnyPoint(k[1], k[2])
        THEN g.cells[k].isPoint /\ IsPointOf(g.cells[k].pointNumber, k[1], k[2])
        ELSE ~g.cells[k].isPoint

C13_GridAfterUndo ==
    (result.op = "undo" /\ result.success) =>
        /\ ~Active
        /\ OccupiedKeys(grid) = CommittedKeys
        /\ PointsKept(grid)

C13_Witness ==
    /\ result.op = "undo" /\ result.success
    /\ Len(paths) >= 1
    /\ OccupiedKeys(grid) = CommittedKeys
    /\ occupiedCells \ CommittedKeys # {}

\* ------------------------------------------------------------------------
\* C14: undo() with an empty history returns false and changes nothing:
\* committed paths, grid, connected points, currentNumber, the active path
\* and its occupied cells stay, and no event is emitted.
\* ------------------------------------------------------------------------
C14_UndoOnEmptyHistory ==
    [][ (result'.op = "undo" /\ Len(history) = 0) =>
          /\ ~result'.success
          /\ lastEvents' = <<>>
          /\ UNCHANGED << paths, grid, connectedPoints, currentNumber,
                          currentPath, occupiedCells, history, gameState >>
      ]_vars

C14_Witness ==
    /\ result.op = "undo" /\ ~result.success
    /\ Active /\ Len(currentPath.cells) >= 2
    /\ \A c \in CellsOf(currentPath) : MarkedOccupied(grid, c.row, c.col)

\* ------------------------------------------------------------------------
\* C15: cancel() with a path active frees every cell of the path after its
\* starting point (grid and session), keeps the starting point and all
\* other cells as they were, drops the active path and leaves committed
\* paths, currentNumber, connected points and history alone; with no path
\* active it changes nothing.
\* ------------------------------------------------------------------------
C15_Cancel ==
    [][ result'.op = "cancel" =>
          IF Active THEN
            LET entered == { posKey(currentPath.cells[i].row, currentPath.cells[i].col) :
                               i \in 2 .. Len(currentPath.cells) }
            IN  /\ OccupiedKeys(grid') = OccupiedKeys(grid) \ entered
                /\ occupiedCells' = occupiedCells \ entered
                /\ MarkedOccupied(grid', currentPath.cells[1].row, currentPath.cells[1].col)
                /\ posKey(currentPath.cells[1].row, currentPath.cells[1].col) \in occupiedCells'
                /\ currentPath' = NoPath
                /\ UNCHANGED << paths, currentNumber, connectedPoints, history >>
          ELSE
            /\ lastEvents' = <<>>
            /\ UNCHANGED << grid, sessionVars >>
      ]_vars

C15_Witness ==
    /\ result.op = "cancel" /\ lastEvents = << "pathCancelled" >>
    /\ ~Active /\ Len(paths) >= 1
    /\ occupiedCells \ CommittedKeys = {}

\* ------------------------------------------------------------------------
\* C16: the history never holds more than maxHistory (50) snapshots; a
\* commit pushes the snapshot of the state it commits from on top, dropping
\* the oldest snapshot and no other when the history was full; undo removes
\* the top snapshot and restores what it holds.
\* ------------------------------------------------------------------------
C16_BoundedHistory ==
    /\ [](Len(history) <= maxHistory)
    /\ [][ (result'.op = "tryExtend" /\ result'.completed) =>
            LET drop == IF Len(history) = maxHistory THEN 1 ELSE 0 IN
            /\ Len(history') = Len(history) + 1 - drop
            /\ \A i \in 1 .. Len(history') - 1 : history'[i] = history[i + drop]
            /\ history'[Len(history')].paths = paths
            /\ history'[Len(history')].currentNumber = currentNumber
            /\ history'[Len(history')].connectedPoints = connectedPoints
        ]_vars
    /\ [][ (result'.op = "undo" /\ result'.success) =>
            /\ Len(history') = Len(history) - 1
            /\ \A i \in 1 .. Len(history') : history'[i] = history[i]
            /\ paths' = history[Len(history)].paths
            /\ currentNumber' = history[Len(history)].currentNumber
            /\ connectedPoints' = history[Len(history)].connectedPoints
        ]_vars

C16_Witness ==
    /\ Len(history) = maxHistory
    /\ Len(paths) > maxHistory
    /\ history[1].currentNumber > 1
    /\ history[maxHistory].currentNumber = currentNumber - 1

\* ------------------------------------------------------------------------
\* C17: level-complete is notified exactly by a commit that makes the
\* number of connected points equal to the number of points; that commit is
\* the one of path N-1, it returns completed and leaves the state completed;
\* a commit of an earlier path does not notify it; an extension into a free
\* cell next to the path's end succeeds; cells may remain free at completion.
\* ------------------------------------------------------------------------
Committing == result'.op = "tryExtend" /\ result'.completed

C17_LevelComplete ==
    [][ /\ Notified("levelComplete") <=>
              (Committing /\ Cardinality(connectedPoints') = totalPoints)
        /\ Notified("levelComplete") =>
              /\ paths'[Len(paths')].number = totalPoints - 1
              /\ lastEvents' = << "pathCompleted", "levelComplete" >>
              /\ gameState' = "completed" /\ isComplete'
        /\ (Committing /\ paths'[Len(paths')].number < totalPoints - 1) =>
              ~Notified("levelComplete")
        /\ (result'.op = "tryExtend" /\ Active) =>
              \A c \in Neighbours4(ActiveEnd) :
                ( /\ InBounds(c.row, c.col)
                  /\ ~MarkedOccupied(grid, c.row, c.col)
                  /\ ~IsAnyPoint(c.row, c.col)
                  /\ TryExtendPath(c.row, c.col) )
                => result'.success
      ]_vars

C17_Witness ==
    /\ result.op = "tryExtend" /\ result.completed
    /\ lastEvents = << "pathCompleted", "levelComplete" >>
    /\ totalPoints = 3 /\ Len(paths) = 2
    /\ \E k \in DOMAIN grid.cells : ~grid.cells[k].occupied

\* ------------------------------------------------------------------------
\* C18: once a level is loaded the puzzle state is drawing exactly when a
\* path is active, completed exactly when no path is active and all points
\* are connected, idle otherwise.
\* ------------------------------------------------------------------------
C18_DerivedState ==
    Loaded =>
        gameState = IF Active THEN "drawing"
                    ELSE IF \A n \in 1 .. totalPoints : n \in connectedPoints
                         THEN "completed"
                    ELSE "idle"

\* ------------------------------------------------------------------------
\* C19: the committed paths are numbered 1, 2, ..., m in that order,
\* currentNumber is m+1, the connected points are none for m = 0 and
\* 1..m+1 otherwise; a point becomes connected only in a commit, of a path
\* that starts on the point numbered one less (or is that path's own first
\* point).
\* ------------------------------------------------------------------------
Ordered ==
    /\ \A j \in 1 .. Len(paths) : paths[j].number = j
    /\ currentNumber = Len(paths) + 1
    /\ connectedPoints = IF Len(paths) = 0 THEN {} ELSE 1 .. (Len(paths) + 1)

C19_Ordering ==
    /\ []Ordered
    /\ [][ \A n \in connectedPoints' \ connectedPoints :
              /\ Committing /\ Active
              /\ paths' = Append(paths, paths'[Len(paths')])
              /\ LET p == paths'[Len(paths')] IN
                 /\ p.number = currentPath.number
                 /\ n \in { p.number, p.number + 1 }
                 /\ IsPointOf(p.number, p.cells[1].row, p.cells[1].col)
        ]_vars

C19_Witness ==
    /\ Len(paths) = 2 /\ currentNumber = 3 /\ connectedPoints = { 1, 2, 3 }
    /\ paths[1].number = 1 /\ paths[2].number = 2

\* ------------------------------------------------------------------------
\* C20: while the puzzle state is completed the input handler is disabled,
\* and no step other than an undo, a reset or a level load (so no
\* drag-start and no drag-move event) changes the session or the grid.
\* ------------------------------------------------------------------------
C20_CompletedLocksInput ==
    [][ gameState = "completed" =>
          /\ ~enabled
          /\ result'.op \notin { "undo", "reset", "loadLevel" } =>
                UNCHANGED << sessionVars, grid >>
          /\ \A row \in DomCoords, col \in DomCoords :
                (_handleStart(row, col) \/ _handleMove(row, col)) =>
                    (~result'.success /\ lastEvents' = <<>>)
      ]_vars

C20_Witness ==
    /\ gameState = "completed" /\ ~enabled
    /\ result.op = "handleStart" /\ result.reason = "ignored"
    /\ Len(paths) = totalPoints - 1

\* ------------------------------------------------------------------------
\* Hints
\* ------------------------------------------------------------------------
\* the solution segments of the loaded level that lead on from point n
SegmentsFrom(n) ==
    { i \in DOMAIN levelData.solution : levelData.solution[i].from = n }

\* the up to three cells of seg that follow its first `after` cells
NextCells(seg, after) ==
    [i \in 1 .. Min(3, Len(seg) - after) |-> seg[after + i]]

\* how many leading cells of `cells` agree with seg, position by position
MatchedPrefix(cells, seg) ==
    CHOOSE k \in 0 .. Min(Len(cells), Len(seg)) :
        /\ \A i \in 1 .. k : cells[i] = seg[i]
        /\ k = Min(Len(cells), Len(seg)) \/ cells[k + 1] # seg[k + 1]

\* C21: getHint changes nothing of the session or the grid; called with no
\* path in progress it returns the first up to three cells of the segment
\* whose `from` is the current number, and none when there is no such
\* segment (as after the last point has been connected).
C21_HintWithoutPath ==
    [][ result'.op = "getHint" =>
          /\ UNCHANGED << grid, levelVars, sessionVars >>
          /\ ~Active =>
                IF SegmentsFrom(currentNumber) = {}
                THEN result'.hint.isNull
                ELSE \A i \in SegmentsFrom(currentNumber) :
                         /\ ~result'.hint.isNull
                         /\ result'.hint.cells =
                                NextCells(levelData.solution[i].path, 0) ]_vars

\* a hint asked for between two strokes, cut to three cells of a longer segment
C21_Witness ==
    /\ result.op = "getHint"
    /\ ~Active
    /\ \E i \in SegmentsFrom(currentNumber) :
          /\ Len(levelData.solution[i].path) > 3
          /\ Len(result.hint.cells) = 3

\* C22: called with a path in progress, getHint takes the longest prefix of
\* that path that agrees with the current segment cell for cell and returns
\* the up to three segment cells after it, and none when the prefix is the
\* whole segment.
C22_HintAlongPath ==
    [][ (result'.op = "getHint" /\ Active) =>
          \A i \in SegmentsFrom(currentNumber) :
              LET seg == levelData.solution[i].path
                  matched == MatchedPrefix(currentPath.cells, seg)
              IN  IF matched >= Len(seg)
                  THEN result'.hint.isNull
                  ELSE /\ ~result'.hint.isNull
                       /\ result'.hint.cells = NextCells(seg, matched) ]_vars

\* a hint asked for two cells into a segment, the stroke still on the segment
C22_Witness ==
    /\ result.op = "getHint"
    /\ Active
    /\ \E i \in SegmentsFrom(currentNumber) :
          /\ MatchedPrefix(currentPath.cells, levelData.solution[i].path) = 2
          /\ Len(currentPath.cells) = 2
          /\ Len(result.hint.cells) = 3

\* ------------------------------------------------------------------------
\* Generated levels
\* ------------------------------------------------------------------------
\* generate has returned a level
Returned == pc = "returned" /\ generated # NullLevel

RECURSIVE JoinedFrom(_, _)
\* the segments i, i + 1, ... of a solution laid end to end, the cell two
\* segments meet on taken once
JoinedFrom(solution, i) ==
    IF i > Len(solution) THEN <<>>
    ELSE IF i = 1 THEN solution[1].path \o JoinedFrom(solution, 2)
    ELSE Tail(solution[i].path) \o JoinedFrom(solution, i + 1)

SolutionPath(level) == JoinedFrom(level.solution, 1)

\* the cells of a size x size grid that are no obstacle of the level
FreeCells(level) ==
    { Pos(r, c) : r \in 0 .. (level.size - 1), c \in 0 .. (level.size - 1) }
        \ { level.obstacles[i] : i \in 1 .. Len(level.obstacles) }

\* the 1-based positions of a cell in a sequence of cells
PositionsIn(cells, cell) ==
    { i \in 1 .. Len(cells) : cells[i].row = cell.row /\ cells[i].col = cell.col }

\* C23: the solution path of a returned level - its segments laid end to
\* end - visits every cell that is no obstacle exactly once and no other
\* cell, steps between 4-adjacent cells, and is size * size minus the number
\* of obstacles long.
C23_SolutionIsHamiltonian ==
    Returned =>
        LET sp == SolutionPath(generated) IN
        /\ Len(sp) = generated.size * generated.size - Len(generated.obstacles)
        /\ \A i \in 1 .. Len(sp) : sp[i] \in FreeCells(generated)
        /\ \A c \in FreeCells(generated) : Cardinality(PositionsIn(sp, c)) = 1
        /\ \A i \in 1 .. (Len(sp) - 1) : Adjacent4(sp[i], sp[i + 1])

\* a level without obstacles, found after the search had to backtrack
C23_Witness ==
    /\ Returned
    /\ Len(generated.obstacles) = 0
    /\ iterations > Len(path)
    /\ Len(SolutionPath(generated)) = 9

\* C24: the points of a returned level are numbered 1..numPoints, lie on
\* distinct cells at strictly increasing indices of the path found, and the
\* segments 1->2, 2->3, ... run from point to point and laid end to end give
\* back the whole path, each junction cell once.
C24_PointsAndSegments ==
    Returned =>
        LET pts == generated.points
            sol == generated.solution
            at(n) == PositionsIn(path, pts[n])
        IN  /\ Len(pts) = options.numPoints
            /\ \A n \in 1 .. Len(pts) : pts[n].number = n
            /\ \A n \in 1 .. Len(pts) : Cardinality(at(n)) = 1
            /\ \A m, n \in 1 .. Len(pts) :
                   m < n => \A i \in at(m), j \in at(n) : i < j
            /\ Len(sol) = options.numPoints - 1
            /\ \A k \in 1 .. Len(sol) :
                   /\ sol[k].from = k /\ sol[k].to = k + 1
                   /\ \A i \in at(k), j \in at(k + 1) : sol[k].path = SubSeq(path, i, j)
            /\ SolutionPath(generated) = path

\* a level with four points, so with two inner junctions
C24_Witness ==
    /\ Returned
    /\ Len(generated.points) = 4
    /\ Len(generated.solution) = 3
    /\ \A k \in 1 .. 3 : Len(generated.solution[k].path) >= 2

\* C25: on a path of length L point 1 is at index 0, point numPoints at index
\* L - 1 and point i + 1, for 0 < i < numPoints - 1, at index
\* i * floor(L / numPoints); the points are numbered in path order.
C25_PointPlacement ==
    Returned =>
        LET pts == generated.points
            L == Len(path)
            n == options.numPoints
            cellAt(index) == path[index + 1]
            on(k, index) == pts[k].row = cellAt(index).row /\ pts[k].col = cellAt(index).col
        IN  /\ Len(pts) = n
            /\ on(1, 0)
            /\ on(n, L - 1)
            /\ \A i \in 1 .. (n - 2) : on(i + 1, i * (L \div n))
            /\ \A k \in 1 .. n : pts[k].number = k

\* three points on a path of eight cells: the inner point at index 1 * floor(8 / 3)
C25_Witness ==
    /\ Returned
    /\ options.numPoints = 3
    /\ Len(path) = 8
    /\ generated.points[2] = Point(2, path[3].row, path[3].col)

\* the corner cells of a size x size grid
CornerCells(size) ==
    { Pos(0, 0), Pos(0, size - 1), Pos(size - 1, 0), Pos(size - 1, size - 1) }

\* C26: the obstacles placed are at most floor(size * size * obstaclePercent
\* / 100), pairwise distinct, inside the grid and off the four corners; the
\* placing loop counts its rounds up to a fixed limit, so it ends.
C26_Obstacles ==
    /\ [](/\ Len(obstacles) <= (options.size * options.size * options.obstaclePercent) \div 100
          /\ \A i, j \in 1 .. Len(obstacles) : i # j => obstacles[i] # obstacles[j]
          /\ \A i \in 1 .. Len(obstacles) :
                /\ obstacles[i].row \in 0 .. (options.size - 1)
                /\ obstacles[i].col \in 0 .. (options.size - 1)
                /\ obstacles[i] \notin CornerCells(options.size)
          /\ obstacleAttempts <= ObstacleTries * MaxObstaclesOf(options))
    /\ [][ (pc = "obstacles" /\ pc' = "obstacles") =>
              obstacleAttempts' = obstacleAttempts + 1 ]_vars

\* room for two obstacles but one interior cell: the loop gave up after its
\* last round with one obstacle placed
C26_Witness ==
    /\ pc = "search"
    /\ maxObstacles = 2
    /\ Len(obstacles) = 1
    /\ obstacleAttempts = ObstacleTries * 2

\* C27: generate ends.  It makes at most RetryLimit attempts with obstacles
\* and returns the level of the first one that succeeds; when all fail it
\* makes one more search, without obstacles, and returns that level or
\* null; after that nothing more is done.
C27_GenerateTerminates ==
    /\ [](attempt \in 0 .. RetryLimit)
    /\ [](attempt = RetryLimit => obstacles = <<>>)
    /\ []((pc = "returned" /\ generated = NullLevel) => attempt = RetryLimit)
    /\ [][ (pc = "search" /\ pc' = "returned" /\ generated' # NullLevel) =>
              /\ generated'.obstacles = obstacles
              /\ SolutionPath(generated') = path'
              /\ attempt' = attempt ]_vars
    /\ [][ (pc = "search" /\ pc' = "obstacles") =>
              attempt < RetryLimit /\ attempt' = attempt + 1 ]_vars
    /\ [][ pc = "returned" => UNCHANGED generatorVars ]_vars
    /\ <>(pc = "returned")

\* every attempt with obstacles failed and the search without obstacles
\* gave the level
C27_Witness ==
    /\ Returned
    /\ attempt = RetryLimit
    /\ attemptSteps > 0

\* C28 (as claimed): the iteration cap counts the recursive steps of a whole
\* attempt, all start points together: once an attempt has made more than
\* maxIterations steps, every further call returns false at once, so the
\* path is not extended and no level comes out of that attempt.
C28_CapPerAttempt ==
    [][ (pc = "search" /\ attemptSteps > maxIterations) =>
            /\ Len(path') <= Len(path)
            /\ generated' = generated ]_vars

\* ------------------------------------------------------------------------
\* The daily puzzle
\* ------------------------------------------------------------------------
RECURSIVE RollingHash(_, _)
\* the rolling hash h <- 31 * h + c of the first n characters, on 32 bits
\* (as unsigned halves)
RollingHash(s, n) ==
    IF n = 0 THEN [hi |-> 0, lo |-> 0]
    ELSE LET h == RollingHash(s, n - 1)
             low == 31 * h.lo + s[n]
         IN  [hi |-> (31 * h.hi + (low \div Word)) % Word, lo |-> low % Word]

\* the 32 bits read as a signed integer
Signed(h) == IF h.hi >= Word \div 2 THEN (h.hi - Word) * Word + h.lo ELSE h.hi * Word + h.lo

\* |v| modulo n
AbsMod(v, n) == IF v >= 0 THEN v % n ELSE (n - (v % n)) % n

\* C30: with count > 0 levels the index getDailyPuzzle selects is the
\* non-negative 32-bit rolling hash of the date string modulo count, so it
\* lies in 0 .. count - 1, and two calls with the same date string and the
\* same count select the same index.
C30_DailySelection ==
    /\ []((daily # NoDaily /\ daily.length > 0) =>
            /\ daily.index \in 0 .. (daily.length - 1)
            /\ daily.index = AbsMod(Signed(RollingHash(daily.today, Len(daily.today))),
                                    daily.length))
    /\ [][ (/\ daily # NoDaily /\ daily' # NoDaily
            /\ daily'.today = daily.today
            /\ daily'.length = daily.length /\ daily.length > 0)
              => daily'.index = daily.index ]_vars

\* a day whose hash is negative on 32 bits, with three levels to choose from
C30_Witness ==
    /\ daily # NoDaily
    /\ daily.length = 3
    /\ Signed(RollingHash(daily.today, Len(daily.today))) < 0
    /\ daily.index = 2

\* ------------------------------------------------------------------------
\* Events
\* ------------------------------------------------------------------------
\* how often the event is among those the call being made has notified
TimesNotified(event) ==
    Cardinality({ i \in 1 .. Len(lastEvents') : lastEvents'[i] = event })

\* C31: every call that changes the session notifies its event exactly
\* once: pathStarted for a successful tryStart, pathExtended for a plain
\* extension, pathTruncated for a backtrack, pathCompleted for a commit,
\* followed by levelComplete exactly when all points are connected then,
\* pathCancelled for the cancel of an active path, undo for a successful
\* undo and reset for a reset; pathCompleted comes before levelComplete.
C31_EventsOnce ==
    [][ /\ (result'.op = "tryStart" /\ result'.success) =>
              lastEvents' = << "pathStarted" >>
        /\ (result'.op = "tryExtend" /\ result'.success
                /\ ~result'.completed /\ ~result'.backtracked) =>
              lastEvents' = << "pathExtended" >>
        /\ (result'.op = "tryExtend" /\ result'.backtracked) =>
              lastEvents' = << "pathTruncated" >>
        /\ (result'.op = "tryExtend" /\ result'.completed) =>
              /\ TimesNotified("pathCompleted") = 1
              /\ lastEvents'[1] = "pathCompleted"
              /\ TimesNotified("levelComplete") =
                    IF \A n \in 1 .. totalPoints : n \in connectedPoints' THEN 1 ELSE 0
              /\ Len(lastEvents') = 1 + TimesNotified("levelComplete")
        /\ (result'.op = "cancel" /\ Active) =>
              lastEvents' = << "pathCancelled" >>
        /\ (result'.op = "undo" /\ result'.success) =>
              lastEvents' = << "undo" >>
        /\ result'.op = "reset" =>
              lastEvents' = << "reset" >>
        /\ \A i, j \in 1 .. Len(lastEvents') :
              (lastEvents'[i] = "pathCompleted" /\ lastEvents'[j] = "levelComplete") => i < j
      ]_vars

\* a backtrack in a stroke drawn after a first path was committed
C31_Witness ==
    /\ result.op = "tryExtend" /\ result.backtracked
    /\ lastEvents = << "pathTruncated" >>
    /\ Len(paths) >= 1
    /\ Active

\* ------------------------------------------------------------------------
\* The search
\* ------------------------------------------------------------------------
\* C32: in the search the visited set is the set of the cells on the path;
\* a call that returns false leaves the visited set and the path as they
\* were when it was entered, whether it gave up for want of neighbours or
\* for the iteration cap; a call that returns true leaves a path as long as
\* there are free cells.
C32_SearchFrame ==
    /\ [](visited = KeysOf(path))
    /\ [](pc = "search" => Len(atEntry) = Len(stack))
    \* a call returns false after its loop: one call fewer is under way
    /\ [][ (pc = "search" /\ Len(stack') < Len(stack)) =>
              /\ visited' = atEntry[Len(atEntry)].visited
              /\ path' = atEntry[Len(atEntry)].path ]_vars
    \* a call returns false for the cap: it was entered and left in one step
    /\ [][ (pc = "search" /\ iterations' # iterations /\ iterations' > maxIterations) =>
              (visited' = visited /\ path' = path /\ pc' = "search") ]_vars
    \* a call returns true
    /\ [][ (pc = "search" /\ pc' = "returned" /\ generated' # NullLevel) =>
              Len(path') = options.size * options.size - Len(obstacles) ]_vars

\* past the cap the calls have unwound to the second cell of the path
C32_Witness ==
    /\ pc = "search"
    /\ iterations > maxIterations + 1
    /\ Len(path) = 1
    /\ Len(stack) = 1
    /\ visited = KeysOf(path)

\* C33 (as claimed): a call that changes currentNumber - a commit, an undo -
\* notifies the event 'currentNumber', which the controller's highlight of
\* the current point is subscribed to.
C33_CurrentNumberNotified ==
    [][ (result'.op \in { "tryExtend", "undo" } /\ currentNumber' # currentNumber) =>
            Notified("currentNumber") ]_vars

\* ------------------------------------------------------------------------
\* Generated levels are solvable
\* ------------------------------------------------------------------------
\* the segment of the loaded level the stroke in progress follows
ActiveSegment == levelData.solution[currentPath.number].path

\* C34: on a level generate returned, tryStart on the first cell of each
\* solution segment and tryExtend on each following cell all succeed, the
\* step onto a segment's last cell, and no other, returns completed, and
\* the commit of the last segment notifies levelComplete with every cell
\* that is no obstacle occupied, in the grid and in the session.
C34_SolutionReplays ==
    [][ (Loaded /\ result'.op \in { "tryStart", "tryExtend" }) =>
          /\ result'.success
          /\ ~result'.backtracked
          /\ (result'.op = "tryStart") =>
                /\ currentPath'.number = currentNumber
                /\ currentPath'.cells = << levelData.solution[currentNumber].path[1] >>
          /\ (result'.op = "tryExtend") =>
                /\ result'.completed <=> (Len(currentPath.cells) + 1 = Len(ActiveSegment))
                /\ ~result'.completed => currentPath'.cells =
                        SubSeq(ActiveSegment, 1, Len(currentPath.cells) + 1)
                /\ result'.completed => paths'[Len(paths')].cells = ActiveSegment
          /\ (result'.completed /\ currentPath.number = Len(levelData.solution)) <=>
                Notified("levelComplete")
          /\ Notified("levelComplete") =>
                /\ OccupiedKeys(grid') = KeysOf(SolutionPath(levelData))
                /\ OccupiedKeys(grid') =
                      (DOMAIN grid'.cells) \ { posKey(o.row, o.col) : o \in levelData.obstacles }
                /\ occupiedCells' = OccupiedKeys(grid')
      ]_vars

\* a generated level with an obstacle and four points, played to the end
C34_Witness ==
    /\ Loaded /\ levelData = AsLevel(generated)
    /\ gameState = "completed"
    /\ Cardinality(levelData.obstacles) = 1
    /\ totalPoints = 4
    /\ Len(paths) = 3
    /\ lastEvents = << "pathCompleted", "levelComplete" >>

\* ------------------------------------------------------------------------
\* History and committed paths
\* ------------------------------------------------------------------------
\* C35: the history holds as many snapshots as there are committed paths
\* (the capacity of maxHistory not being reached), so undo succeeds exactly
\* when a path is committed; each undo takes one committed path away, and
\* the undo that takes the last one away leaves currentNumber 1 and no
\* point connected.
C35_HistoryMatchesPaths ==
    /\ [](Len(paths) <= maxHistory => Len(history) = Len(paths))
    /\ [](canUndo <=> Len(paths) >= 1)
    /\ [][ result'.op = "undo" =>
              /\ result'.success <=> Len(paths) >= 1
              /\ result'.success =>
                    /\ Len(paths') = Len(paths) - 1
                    /\ Len(history') = Len(history) - 1
                    /\ Len(paths') = 0 => (currentNumber' = 1 /\ connectedPoints' = {})
        ]_vars

\* a level of four points after its third undo: nothing is committed
C35_Witness ==
    /\ result.op = "undo" /\ result.success
    /\ totalPoints = 4
    /\ undoCount = 3
    /\ paths = <<>> /\ history = <<>>
    /\ currentNumber = 1 /\ connectedPoints = {}

\* ------------------------------------------------------------------------
\* The two occupancy records
\* ------------------------------------------------------------------------
\* C36: in every reachable state a cell is in GameState.occupiedCells
\* exactly when the grid marks it occupied.
C36_OccupancyAgrees == occupiedCells = OccupiedKeys(grid)

\* ------------------------------------------------------------------------
\* The completion flag
\* ------------------------------------------------------------------------
EveryPointConnected == \A n \in 1 .. totalPoints : n \in connectedPoints

\* C37: on a loaded level isComplete is true exactly when every point is
\* in connectedPoints; in particular an undo after the level was completed
\* leaves it false.
C37_CompleteIffAllConnected == Loaded => (isComplete <=> EveryPointConnected)

\* ------------------------------------------------------------------------
\* Stroke input and the completed state
\* ------------------------------------------------------------------------
\* C38: whenever the puzzle is not in the completed state the InputHandler
\* is enabled: level-complete disables it and every operation that leaves
\* the completed state (undo, reset, load) enables it again.
C38_InputEnabledUnlessCompleted == gameState # "completed" => enabled

\* ------------------------------------------------------------------------
\* Strokes and drags
\* ------------------------------------------------------------------------
\* C39: driven by the controller, a stroke is in progress only while a drag
\* is active, whatever the interleaving of drag starts, moves and ends with
\* undo, reset and level loads; and the end of a drag that has not reached
\* the next point leaves no cell of its stroke but the first one occupied,
\* in the grid or in occupiedCells.
C39_StrokeOnlyDuringDrag ==
    /\ [](~isActive => currentPath = NoPath)
    /\ [][ (result'.op = "cancel" /\ currentPath # NoPath) =>
              /\ isActive /\ ~isActive'
              /\ currentPath' = NoPath
              /\ \A k \in KeysOf(Tail(currentPath.cells)) :
                    ~grid'.cells[k].occupied /\ k \notin occupiedCells'
        ]_vars

\* a drag over three cells has just ended short of the next point
C39_Witness ==
    /\ result.op = "cancel"
    /\ lastEvents = << "pathCancelled" >>
    /\ ~isActive /\ enabled
    /\ currentPath = NoPath
    /\ Cardinality(occupiedCells) = 1
    /\ paths = <<>>
    /\ lastCell = NoCell

\* ------------------------------------------------------------------------
\* Reset
\* ------------------------------------------------------------------------
\* C40: from whatever state it is called in, reset leaves the session as a
\* fresh load of the same level does: no committed path, no stroke, no
\* connected point, currentNumber 1, an empty history, state idle,
\* isComplete false, no cell occupied in the grid or in occupiedCells, and
\* the level's points where they were.
C40_ResetRestoresFresh ==
    [][ result'.op = "reset" =>
          /\ paths' = <<>>
          /\ currentPath' = NoPath
          /\ connectedPoints' = {}
          /\ currentNumber' = 1
          /\ history' = <<>>
          /\ gameState' = "idle"
          /\ ~isComplete'
          /\ OccupiedKeys(grid') = {}
          /\ occupiedCells' = {}
          /\ \A k \in DOMAIN grid'.cells : grid'.cells[k].pathNumber = Null
          /\ points' = points /\ totalPoints' = totalPoints /\ levelData' = levelData
          /\ grid'.size = grid.size /\ grid'.points = grid.points
          /\ \A k \in DOMAIN grid.cells :
                /\ grid'.cells[k].isPoint = grid.cells[k].isPoint
                /\ grid'.cells[k].pointNumber = grid.cells[k].pointNumber
    ]_vars

\* a level of three points has just been reset
C40_Witness ==
    /\ result.op = "reset"
    /\ lastEvents = << "reset" >>
    /\ totalPoints = 3
    /\ paths = <<>> /\ history = <<>> /\ currentPath = NoPath
    /\ gameState = "idle" /\ ~isComplete
    /\ OccupiedKeys(grid) = {} /\ occupiedCells = {}
    /\ PointsKept(grid)

====
